---- MODULE Spec2Model ----
(***************************************************************************)
(* A model of the linear-mcp client: NewClient, ExecuteGraphQL and the     *)
(* typed operations built on it (package linear), as one state machine.    *)
(* One operation is in progress at a time; it sends a request, the HTTP    *)
(* client answers with some outcome, and the operation maps the decoded    *)
(* response to a record (or an error) and returns.                         *)
(***************************************************************************)
EXTENDS Integers, Sequences, FiniteSets, TLC

VARIABLES
    client,        \* the *Client, NilPtr before NewClient
    newClientArgs, \* the arguments NewClient was called with, until calls start
    pc,            \* "start", "constructed", "idle", "waiting", "returned",
                   \* "panicked", "replied", "serving", "registering", "exited"
    frame,         \* the operation in progress: its name, arguments and locals
    inflight,      \* the request httpCli.Do is working on
    sent,          \* the requests the operation in progress has sent
    received,      \* the outcomes httpCli.Do gave the operation in progress
    result,        \* what the operation returned to its caller
    calls,         \* the tool calls running concurrently on the one client
    pending,       \* the requests of concurrent calls that httpCli.Do works on
    files,         \* the local files the download_attachment tool can write
    process        \* the process of main: its LINEAR_API_KEY, the tools registered

vars == <<client, newClientArgs, pc, frame, inflight, sent, received, result,
          calls, pending, files, process>>
\* the state of the server outside the operation in progress
elsewhere == <<calls, pending, files, process>>

(***************************************************************************)
(* Bounds of the model.                                                    *)
(***************************************************************************)
\* longest option list given to NewClient
MaxOpts == 2
\* longest "errors" list of a response
MaxErrors == 2
\* longest "nodes" list of a response
MaxNodes == 2

(***************************************************************************)
(* Go values: pointers, slices, and the untyped JSON tree that             *)
(* encoding/json decodes into (map[string]interface{}, []interface{},      *)
(* string, float64, bool, nil).  A number carries its value in tenths so   *)
(* that the float64 -> int conversion is a real truncation.                *)
(***************************************************************************)
NilPtr == [kind |-> "nil"]
Ptr(v) == [kind |-> "ptr", v |-> v]
NilSlice == [kind |-> "nil"]
Slice(s) == [kind |-> "slice", elems |-> s]

Absent == [kind |-> "absent"]
Null == [kind |-> "null"]
JStr(s) == [kind |-> "string", s |-> s]
JNum(t) == [kind |-> "number", tenths |-> t]
JBool(b) == [kind |-> "bool", b |-> b]
JArr(s) == [kind |-> "array", elems |-> s]
\* an object holding the keys of f whose value is not Absent
JObj(f) == [kind |-> "object",
            fields |-> [k \in {x \in DOMAIN f : f[x] # Absent} |-> f[k]]]

\* m[key] for a decoded object m: the value, or Absent (Go yields nil, false)
Get(m, key) == IF m.kind = "object" /\ key \in DOMAIN m.fields THEN m.fields[key] ELSE Absent
\* v.(map[string]interface{}) succeeds
IsMap(v) == v.kind = "object"
\* v.([]interface{}) succeeds
IsArr(v) == v.kind = "array"


NilMap == [kind |-> "nil"]
\* a Go int held in an interface{} (request variables)
JInt(n) == [kind |-> "int", n |-> n]
\* len(m) of a map that may be nil
MapLen(m) == IF m.kind = "object" THEN Cardinality(DOMAIN m.fields) ELSE 0

NilErr == [kind |-> "nil"]
\* fmt.Errorf / errors.New: an error value with its message
Err(msg) == [kind |-> "error", msg |-> msg]
\* strings.HasPrefix(s, prefix)
HasPrefix(s, prefix) ==
    Len(s) >= Len(prefix) /\ SubSeq(s, 1, Len(prefix)) = prefix
\* the paths the model's file system has, and what they hold at the start:
\* one path is free, one holds a file, one lies in a directory that does not
\* exist
FilePaths == {"/tmp/a.png", "/home/u/notes.txt", "/nonexistent/a.png"}
\* the tools main registers, in the order of registration
AllTools ==
    <<"get_issue", "get_team_issues", "create_issue", "update_issue",
      "get_issue_children", "create_project", "get_teams", "update_project",
      "download_attachment", "get_issue_by_identifier", "get_team_projects",
      "get_project_issues">>
\* no process of main: the client is used as a library
NoProcess == [apiKey |-> "", tools |-> <<>>]
\* the process of main once it serves
Serving == [apiKey |-> "lin_api_XYZ", tools |-> AllTools]
NoFile == [kind |-> "absent"]
File(data) == [kind |-> "file", data |-> data]
InitialFiles ==
    [p \in FilePaths |-> IF p = "/home/u/notes.txt" THEN File("notes") ELSE NoFile]

(***************************************************************************)
(* client.go: helpers for extracting values from decoded maps.             *)
(***************************************************************************)
safeGetString(m, key) ==
    LET val == Get(m, key)
    IN  IF val.kind = "string" THEN val.s ELSE ""

\* int(v) for a float64 v given in tenths: truncation toward zero
IntOfFloat(t) == IF t >= 0 THEN t \div 10 ELSE -((-t) \div 10)

safeGetInt(m, key) ==
    LET val == Get(m, key)
    IN  CASE val.kind = "int" -> val.n
          [] val.kind = "number" -> IntOfFloat(val.tenths)
          [] OTHER -> 0

\* the float64 result, in tenths
safeGetFloat64(m, key) ==
    LET val == Get(m, key)
    IN  CASE val.kind = "number" -> val.tenths
          [] val.kind = "int" -> val.n * 10
          [] OTHER -> 0

(***************************************************************************)
(* client.go: Client, ClientOption, NewClient.                             *)
(***************************************************************************)
DefaultAPIURL == "https://api.linear.app/graphql"
\* http.DefaultClient
DefaultClient == "http.DefaultClient"

\* A ClientOption is a func(*Client); it is held as the data of its closure
\* and applied by ApplyOption.
WithURL(url) == [option |-> "WithURL", url |-> url]
WithHTTPClient(httpCli) == [option |-> "WithHTTPClient", httpCli |-> httpCli]

\* opt(client)
ApplyOption(opt, c) ==
    IF opt.option = "WithURL"
    THEN [c EXCEPT !.apiURL = opt.url]
    ELSE [c EXCEPT !.httpCli = opt.httpCli]

RECURSIVE ApplyOptionsFirstWins(_, _)
\* a variant in which the first option for a field wins
ApplyOptionsFirstWins(opts, c) ==
    IF opts = <<>> THEN c
    ELSE ApplyOption(Head(opts), ApplyOptionsFirstWins(Tail(opts), c))

RECURSIVE ApplyOptions(_, _)
\* for _, opt := range opts { opt(client) }
ApplyOptions(opts, c) ==
    IF opts = <<>> THEN c
    ELSE ApplyOptions(Tail(opts), ApplyOption(Head(opts), c))

NewClient(apiKey, opts) ==
    ApplyOptions(opts, [apiKey |-> apiKey,
                        apiURL |-> DefaultAPIURL,
                        httpCli |-> DefaultClient])

(***************************************************************************)
(* client.go: ExecuteGraphQL, in two halves around httpCli.Do.             *)
(***************************************************************************)
\* a URL that url.Parse rejects, so that http.NewRequest fails
InvalidURL == "http://[::1"
CustomURL == "https://custom.linear.app/graphql"

\* json.Marshal(GraphQLRequest{query, variables}): "variables" is omitempty,
\* so a nil or empty map is left out of the body
MarshalRequest(query, variables) ==
    [query |-> query,
     variables |-> IF MapLen(variables) = 0 THEN Absent ELSE variables]

\* a variant that sends the key as a bearer token
BuildRequestBearer(c, query, variables) ==
    [method |-> "POST",
     url |-> c.apiURL,
     header |-> ("Content-Type" :> "application/json"
                 @@ "Authorization" :> ("Bearer " \o c.apiKey)),
     body |-> MarshalRequest(query, variables)]

\* http.NewRequest(POST, c.apiURL, body) and the two header Sets
BuildRequest(c, query, variables) ==
    [method |-> "POST",
     url |-> c.apiURL,
     header |-> ("Content-Type" :> "application/json"
                 @@ "Authorization" :> c.apiKey),
     body |-> MarshalRequest(query, variables)]

\* The part of ExecuteGraphQL before httpCli.Do: the request, or the error
\* that ends the call before anything is sent.
ExecuteGraphQLRequest(c, query, variables) ==
    IF c.apiURL = InvalidURL
    THEN [req |-> NilPtr,
          err |-> Err("failed to create request: parse \"" \o c.apiURL
                      \o "\": missing ']' in host")]
    ELSE [req |-> Ptr(BuildRequest(c, query, variables)), err |-> NilErr]

\* resp.Status
StatusLine(code) ==
    CASE code = 200 -> "200 OK"
      [] code = 500 -> "500 Internal Server Error"
      [] OTHER -> "404 Not Found"

RECURSIVE DecodeErrors(_)
\* decoding the elements of "errors" into []GraphQLError: the messages, or
\* <<FALSE>> when an element cannot be decoded
DecodeErrors(elems) ==
    IF elems = <<>> THEN <<TRUE, <<>>>>
    ELSE LET e == Head(elems)
             m == IF e.kind = "object" THEN Get(e, "message") ELSE Absent
             rest == DecodeErrors(Tail(elems))
         IN  IF e.kind \notin {"object", "null"} THEN <<FALSE>>
             ELSE IF m.kind \notin {"string", "null", "absent"} THEN <<FALSE>>
             ELSE IF ~rest[1] THEN <<FALSE>>
             ELSE <<TRUE, <<IF m.kind = "string" THEN m.s ELSE "">> \o rest[2]>>

\* json.NewDecoder(resp.Body).Decode(&result) into GraphQLResponse
DecodeResponse(body) ==
    LET d == Get(body, "data")
        e == Get(body, "errors")
        es == IF e.kind = "array" THEN DecodeErrors(e.elems) ELSE <<TRUE, <<>>>>
    IN  IF body.kind = "null"
        THEN [ok |-> TRUE, Data |-> NilMap, Errors |-> <<>>]
        ELSE IF body.kind # "object"
        THEN [ok |-> FALSE,
              err |-> "invalid character '<' looking for beginning of value"]
        ELSE IF d.kind \notin {"absent", "null", "object"}
        THEN [ok |-> FALSE,
              err |-> "json: cannot unmarshal " \o d.kind
                      \o " into Go struct field GraphQLResponse.data of type map[string]interface {}"]
        ELSE IF e.kind \notin {"absent", "null", "array"} \/ ~es[1]
        THEN [ok |-> FALSE,
              err |-> "json: cannot unmarshal into Go struct field GraphQLResponse.errors"]
        ELSE [ok |-> TRUE,
              Data |-> IF d.kind = "object" THEN d ELSE NilMap,
              Errors |-> es[2]]

RECURSIVE Join(_, _)
\* strings.Join(elems, sep)
Join(elems, sep) ==
    IF elems = <<>> THEN ""
    ELSE IF Len(elems) = 1 THEN elems[1]
    ELSE elems[1] \o sep \o Join(Tail(elems), sep)

\* a variant that joins the messages with ", " and drops the partial response
ExecuteGraphQLResponseErrorsOnly(req, out) ==
    IF out.kind = "fail"
    THEN [resp |-> NilPtr,
          err |-> Err("failed to make request: Post \"" \o req.url \o "\": "
                      \o out.cause)]
    ELSE LET dec == DecodeResponse(out.body)
         IN  IF ~dec.ok
             THEN IF out.status # 200
                  THEN [resp |-> NilPtr,
                        err |-> Err("received non-OK response: "
                                    \o StatusLine(out.status))]
                  ELSE [resp |-> NilPtr,
                        err |-> Err("failed to decode response: " \o dec.err)]
             ELSE LET r == [Data |-> dec.Data, Errors |-> dec.Errors]
                  IN  IF Len(dec.Errors) > 0
                      THEN [resp |-> NilPtr,
                            err |-> Err("GraphQL errors: "
                                        \o Join(dec.Errors, ", "))]
                      ELSE [resp |-> Ptr(r), err |-> NilErr]

\* a variant that reports every undecodable body as a decode failure
ExecuteGraphQLResponseIgnoresStatus(req, out) ==
    IF out.kind = "fail"
    THEN [resp |-> NilPtr,
          err |-> Err("failed to make request: Post \"" \o req.url \o "\": "
                      \o out.cause)]
    ELSE LET dec == DecodeResponse(out.body)
         IN  IF ~dec.ok
             THEN [resp |-> NilPtr,
                   err |-> Err("failed to decode response: " \o dec.err)]
             ELSE LET r == [Data |-> dec.Data, Errors |-> dec.Errors]
                  IN  IF Len(dec.Errors) > 0
                      THEN [resp |-> Ptr(r),
                            err |-> Err("GraphQL errors: "
                                        \o Join(dec.Errors, "; "))]
                      ELSE [resp |-> Ptr(r), err |-> NilErr]

\* a variant that reports every status other than 200 as an error, whatever
\* the body holds
ExecuteGraphQLResponseStatusFirst(req, out) ==
    IF out.kind = "fail"
    THEN [resp |-> NilPtr,
          err |-> Err("failed to make request: Post \"" \o req.url \o "\": "
                      \o out.cause)]
    ELSE IF out.status # 200
    THEN [resp |-> NilPtr,
          err |-> Err("received non-OK response: " \o StatusLine(out.status))]
    ELSE LET dec == DecodeResponse(out.body)
         IN  IF ~dec.ok
             THEN [resp |-> NilPtr,
                   err |-> Err("failed to decode response: " \o dec.err)]
             ELSE LET r == [Data |-> dec.Data, Errors |-> dec.Errors]
                  IN  IF Len(dec.Errors) > 0
                      THEN [resp |-> Ptr(r),
                            err |-> Err("GraphQL errors: "
                                        \o Join(dec.Errors, "; "))]
                      ELSE [resp |-> Ptr(r), err |-> NilErr]

\* The part of ExecuteGraphQL from httpCli.Do on, for the outcome `out` of
\* the round trip of request `req`.
ExecuteGraphQLResponse(req, out) ==
    IF out.kind = "fail"
    THEN [resp |-> NilPtr,
          err |-> Err("failed to make request: Post \"" \o req.url \o "\": "
                      \o out.cause)]
    ELSE LET dec == DecodeResponse(out.body)
         IN  IF ~dec.ok
             THEN IF out.status # 200
                  THEN [resp |-> NilPtr,
                        err |-> Err("received non-OK response: "
                                    \o StatusLine(out.status))]
                  ELSE [resp |-> NilPtr,
                        err |-> Err("failed to decode response: " \o dec.err)]
             ELSE LET r == [Data |-> dec.Data, Errors |-> dec.Errors]
                  IN  IF Len(dec.Errors) > 0
                      THEN [resp |-> Ptr(r),
                            err |-> Err("GraphQL errors: "
                                        \o Join(dec.Errors, "; "))]
                      ELSE [resp |-> Ptr(r), err |-> NilErr]


(***************************************************************************)
(* graphql.go: the embedded query files.  Their text is not part of the    *)
(* model; a loaded query is named by its path in the embedded file set.    *)
(***************************************************************************)
graphqlFS == {"get_team_issues.graphql", "get_issue.graphql",
              "create_issue.graphql", "get_issue_children.graphql",
              "update_issue.graphql", "get_team_projects.graphql",
              "get_project_issues.graphql"}

\* the file names passed are plain names, which filepath.Base leaves alone
getGraphQLQuery(filename) ==
    IF filename \in graphqlFS
    THEN [text |-> "graphql/" \o filename, err |-> NilErr]
    ELSE [text |-> "",
          err |-> Err("open graphql/" \o filename \o ": file does not exist")]

(***************************************************************************)
(* What an operation hands back: (record, error), or a run-time panic.     *)
(***************************************************************************)
Ret(rec, err) == [kind |-> "return", rec |-> rec, err |-> err]
Panic(msg) == [kind |-> "panic", msg |-> msg]

\* seq with f applied to each element
MapSeq(s, f(_)) == [i \in 1..Len(s) |-> f(s[i])]

(***************************************************************************)
(* The records (zero values) and the sub-object mappings the typed         *)
(* operations repeat inline.                                               *)
(***************************************************************************)
ZeroIssue ==
    [ID |-> "", Identifier |-> "", Title |-> "", Description |-> "",
     State |-> NilPtr, Assignee |-> NilPtr, Project |-> NilPtr,
     Parent |-> NilPtr, Children |-> NilSlice, Priority |-> 0,
     CreatedAt |-> "", UpdatedAt |-> "", URL |-> "", BranchName |-> ""]

ZeroProject ==
    [ID |-> "", Name |-> "", Description |-> "", Icon |-> "", Color |-> "",
     State |-> "", Status |-> NilPtr, Lead |-> NilPtr, Teams |-> NilSlice,
     Issues |-> NilSlice, CreatedAt |-> "", UpdatedAt |-> "",
     StartedAt |-> "", TargetDate |-> "", SortOrder |-> 0, URL |-> ""]

\* a variant that makes a state of whatever is under "state"
WorkflowStateOfAlways(m) ==
    Ptr([ID |-> safeGetString(Get(m, "state"), "id"),
         Name |-> safeGetString(Get(m, "state"), "name")])

\* if stateMap, ok := m["state"].(map[string]interface{}); ok { &WorkflowState{...} }
WorkflowStateOf(m) ==
    LET stateMap == Get(m, "state")
    IN  IF IsMap(stateMap)
        THEN Ptr([ID |-> safeGetString(stateMap, "id"),
                  Name |-> safeGetString(stateMap, "name")])
        ELSE NilPtr

\* &User{ID, Name, Email} from the sub-object under key
UserOf(m, key) ==
    LET userMap == Get(m, key)
    IN  IF IsMap(userMap)
        THEN Ptr([ID |-> safeGetString(userMap, "id"),
                  Name |-> safeGetString(userMap, "name"),
                  Email |-> safeGetString(userMap, "email")])
        ELSE NilPtr

\* &User{ID, Name} (CreateIssue, UpdateIssue leave Email empty)
AssigneeIDNameOf(m) ==
    LET assigneeMap == Get(m, "assignee")
    IN  IF IsMap(assigneeMap)
        THEN Ptr([ID |-> safeGetString(assigneeMap, "id"),
                  Name |-> safeGetString(assigneeMap, "name"),
                  Email |-> ""])
        ELSE NilPtr

\* &Issue{ID, Identifier, Title} from "parent"
ParentOf(m) ==
    LET parentMap == Get(m, "parent")
    IN  IF IsMap(parentMap)
        THEN Ptr([ZeroIssue EXCEPT
                    !.ID = safeGetString(parentMap, "id"),
                    !.Identifier = safeGetString(parentMap, "identifier"),
                    !.Title = safeGetString(parentMap, "title")])
        ELSE NilPtr

\* &Project{ID, Name} from "project"
ProjectRefOf(m) ==
    LET projectMap == Get(m, "project")
    IN  IF IsMap(projectMap)
        THEN Ptr([ZeroProject EXCEPT
                    !.ID = safeGetString(projectMap, "id"),
                    !.Name = safeGetString(projectMap, "name")])
        ELSE NilPtr

\* &ProjectStatus{ID, Name} from "status"
ProjectStatusOf(m) ==
    LET statusMap == Get(m, "status")
    IN  IF IsMap(statusMap)
        THEN Ptr([ID |-> safeGetString(statusMap, "id"),
                  Name |-> safeGetString(statusMap, "name")])
        ELSE NilPtr

TeamOfMap(teamMap) ==
    [ID |-> safeGetString(teamMap, "id"),
     Name |-> safeGetString(teamMap, "name"),
     Key |-> safeGetString(teamMap, "key")]

\* the "teams" { "nodes" } of a project: elements that are no objects are
\* skipped (continue); without the container or its nodes Teams stays nil
TeamsOf(m) ==
    LET teamsMap == Get(m, "teams")
        teamsNodes == Get(teamsMap, "nodes")
    IN  IF IsMap(teamsMap) /\ IsArr(teamsNodes)
        THEN Slice(MapSeq(SelectSeq(teamsNodes.elems, IsMap), TeamOfMap))
        ELSE NilSlice

\* the Project literal shared by GetProjects, GetProject, CreateProject and
\* UpdateProject, with Lead and Teams
ProjectOfMap(projectData) ==
    [ZeroProject EXCEPT
       !.ID = safeGetString(projectData, "id"),
       !.Name = safeGetString(projectData, "name"),
       !.Description = safeGetString(projectData, "description"),
       !.Icon = safeGetString(projectData, "icon"),
       !.Color = safeGetString(projectData, "color"),
       !.State = safeGetString(projectData, "state"),
       !.CreatedAt = safeGetString(projectData, "createdAt"),
       !.UpdatedAt = safeGetString(projectData, "updatedAt"),
       !.StartedAt = safeGetString(projectData, "startedAt"),
       !.TargetDate = safeGetString(projectData, "targetDate"),
       !.SortOrder = safeGetFloat64(projectData, "sortOrder"),
       !.URL = safeGetString(projectData, "url"),
       !.Lead = UserOf(projectData, "lead"),
       !.Teams = TeamsOf(projectData)]

\* the Issue literal of GetTeamIssues and GetIssueChildren nodes
IssueOfNode(nodeMap) ==
    [ZeroIssue EXCEPT
       !.ID = safeGetString(nodeMap, "id"),
       !.Identifier = safeGetString(nodeMap, "identifier"),
       !.Title = safeGetString(nodeMap, "title"),
       !.Description = safeGetString(nodeMap, "description"),
       !.Priority = safeGetInt(nodeMap, "priority"),
       !.CreatedAt = safeGetString(nodeMap, "createdAt"),
       !.UpdatedAt = safeGetString(nodeMap, "updatedAt"),
       !.BranchName = safeGetString(nodeMap, "branchName"),
       !.State = WorkflowStateOf(nodeMap),
       !.Assignee = UserOf(nodeMap, "assignee")]

\* the Issue literal of CreateIssue and UpdateIssue
IssueOfMutation(issueData) ==
    [ZeroIssue EXCEPT
       !.ID = safeGetString(issueData, "id"),
       !.Identifier = safeGetString(issueData, "identifier"),
       !.Title = safeGetString(issueData, "title"),
       !.Description = safeGetString(issueData, "description"),
       !.Priority = safeGetInt(issueData, "priority"),
       !.URL = safeGetString(issueData, "url"),
       !.BranchName = safeGetString(issueData, "branchName"),
       !.State = WorkflowStateOf(issueData),
       !.Assignee = AssigneeIDNameOf(issueData),
       !.Project = ProjectRefOf(issueData),
       !.Parent = ParentOf(issueData)]


(***************************************************************************)
(* user.go: GetViewer.                                                     *)
(***************************************************************************)
GetViewerQuery == "query { viewer { id name email } }"

\* GetViewer after ExecuteGraphQL returned x.  The fields are read with an
\* unchecked v.(string), which panics on anything but a string.
GetViewerResult(x) ==
    IF x.err # NilErr THEN Ret(NilPtr, x.err)
    ELSE LET viewerData == Get(x.resp.v.Data, "viewer")
         IN  IF ~IsMap(viewerData)
             THEN Ret(NilPtr, Err("invalid viewer data format"))
             ELSE IF \E k \in {"id", "name", "email"} :
                        Get(viewerData, k).kind # "string"
             THEN Panic("interface conversion: interface {} is not string")
             ELSE Ret(Ptr([ID |-> Get(viewerData, "id").s,
                           Name |-> Get(viewerData, "name").s,
                           Email |-> Get(viewerData, "email").s]), NilErr)

(***************************************************************************)
(* team.go: GetTeams, GetTeamProjects.                                     *)
(***************************************************************************)
GetTeamsQuery == "query { teams { nodes { id name key } } }"

\* a node the GetTeams loop cannot pass: no object, or a field no string
TeamNodeStops(node) ==
    \/ ~IsMap(node)
    \/ \E k \in {"id", "name", "key"} : Get(node, k).kind # "string"

GetTeamsResult(x) ==
    IF x.err # NilErr THEN Ret(NilSlice, x.err)
    ELSE LET teamsData == Get(x.resp.v.Data, "teams")
             nodesData == Get(teamsData, "nodes")
             stops == {i \in 1..Len(nodesData.elems) :
                            TeamNodeStops(nodesData.elems[i])}
             first == CHOOSE i \in stops : \A j \in stops : i <= j
         IN  IF ~IsMap(teamsData)
             THEN Ret(NilSlice, Err("invalid teams data format"))
             ELSE IF ~IsArr(nodesData)
             THEN Ret(NilSlice, Err("invalid teams nodes format"))
             ELSE IF stops # {}
             THEN IF ~IsMap(nodesData.elems[first])
                  THEN Ret(NilSlice, Err("invalid team node format"))
                  ELSE Panic("interface conversion: interface {} is not string")
             ELSE Ret(Slice(MapSeq(nodesData.elems, TeamOfMap)), NilErr)

\* opts is not read
GetTeamProjectsVariables(teamID, opts) ==
    JObj([teamId |-> JStr(teamID)])

TeamProjectOfNode(nodeMap) ==
    [ID |-> safeGetString(nodeMap, "id"),
     Name |-> safeGetString(nodeMap, "name"),
     SlugID |-> safeGetString(nodeMap, "slugId"),
     Status |-> ProjectStatusOf(nodeMap)]

GetTeamProjectsResult(x) ==
    IF x.err # NilErr THEN Ret(NilSlice, x.err)
    ELSE LET teamData == Get(x.resp.v.Data, "team")
             projectsData == Get(teamData, "projects")
             nodesData == Get(projectsData, "nodes")
         IN  IF ~IsMap(teamData)
             THEN Ret(NilSlice, Err("invalid team data format"))
             ELSE IF ~IsMap(projectsData)
             THEN Ret(NilSlice, Err("invalid projects data format"))
             ELSE IF ~IsArr(nodesData)
             THEN Ret(NilSlice, Err("invalid projects nodes format"))
             ELSE IF \E i \in 1..Len(nodesData.elems) : ~IsMap(nodesData.elems[i])
             THEN Ret(NilSlice, Err("invalid project node format"))
             ELSE Ret(Slice(MapSeq(nodesData.elems, TeamProjectOfNode)), NilErr)

(***************************************************************************)
(* issue.go: GetTeamIssues, GetIssue, CreateIssue, GetIssueChildren,       *)
(* UpdateIssue.                                                            *)
(***************************************************************************)
\* a variant that clamps a First above 100 to 100
GetTeamIssuesVariablesClampMax(teamID, opts) ==
    LET first == IF opts.kind # "ptr" \/ opts.v.First <= 0 THEN 50
                 ELSE IF opts.v.First > 100 THEN 100 ELSE opts.v.First
    IN  JObj([teamId |-> JStr(teamID), first |-> JInt(first)])

GetTeamIssuesVariables(teamID, opts) ==
    LET first == IF opts.kind = "ptr" /\ opts.v.First > 0 /\ opts.v.First <= 100
                 THEN opts.v.First ELSE 50
    IN  JObj([teamId |-> JStr(teamID), first |-> JInt(first)])

GetTeamIssuesResult(x) ==
    IF x.err # NilErr THEN Ret(NilSlice, x.err)
    ELSE LET teamData == Get(x.resp.v.Data, "team")
             issuesData == Get(teamData, "issues")
             nodesData == Get(issuesData, "nodes")
         IN  IF ~IsMap(teamData)
             THEN Ret(NilSlice, Err("invalid team data format"))
             ELSE IF ~IsMap(issuesData)
             THEN Ret(NilSlice, Err("invalid issues data format"))
             ELSE IF ~IsArr(nodesData)
             THEN Ret(NilSlice, Err("invalid issues nodes format"))
             ELSE IF \E i \in 1..Len(nodesData.elems) : ~IsMap(nodesData.elems[i])
             THEN Ret(NilSlice, Err("invalid issue node format"))
             ELSE Ret(Slice(MapSeq(nodesData.elems, IssueOfNode)), NilErr)

GetIssueVariables(issueID) == JObj([id |-> JStr(issueID)])

\* GetIssue from the return of its ExecuteGraphQL to the test of opts
\* a variant that maps the partial data of a response that carries errors
GetIssuePrimaryKeepsPartial(x) ==
    IF x.resp.kind = "nil" THEN Ret(NilPtr, x.err)
    ELSE LET issueData == Get(x.resp.v.Data, "issue")
         IN  IF ~IsMap(issueData)
             THEN Ret(NilPtr, Err("invalid issue data format"))
             ELSE Ret(Ptr([ZeroIssue EXCEPT
                             !.ID = safeGetString(issueData, "id"),
                             !.Title = safeGetString(issueData, "title")]),
                      x.err)

GetIssuePrimary(x) ==
    IF x.err # NilErr THEN Ret(NilPtr, x.err)
    ELSE LET issueData == Get(x.resp.v.Data, "issue")
         IN  IF ~IsMap(issueData)
             THEN Ret(NilPtr, Err("invalid issue data format"))
             ELSE Ret(Ptr([ZeroIssue EXCEPT
                    !.ID = safeGetString(issueData, "id"),
                    !.Identifier = safeGetString(issueData, "identifier"),
                    !.Title = safeGetString(issueData, "title"),
                    !.Description = safeGetString(issueData, "description"),
                    !.Priority = safeGetInt(issueData, "priority"),
                    !.CreatedAt = safeGetString(issueData, "createdAt"),
                    !.UpdatedAt = safeGetString(issueData, "updatedAt"),
                    !.URL = safeGetString(issueData, "url"),
                    !.BranchName = safeGetString(issueData, "branchName"),
                    !.State = WorkflowStateOf(issueData),
                    !.Assignee = UserOf(issueData, "assignee"),
                    !.Parent = ParentOf(issueData)]), NilErr)

\* a variant that fetches the children whenever options are given
GetIssueWantsChildrenAlways(opts) == opts.kind = "ptr"

\* opts != nil && opts.IncludeChildren
GetIssueWantsChildren(opts) == opts.kind = "ptr" /\ opts.v.IncludeChildren

\* a variant that always asks for 50 children
GetIssueChildrenOptsDefault(opts) == Ptr([First |-> 50])

\* childrenOpts of GetIssue
GetIssueChildrenOpts(opts) ==
    Ptr([First |-> IF opts.v.ChildrenFirst > 0 /\ opts.v.ChildrenFirst <= 100
                   THEN opts.v.ChildrenFirst ELSE 50])

\* GetIssue after its call of GetIssueChildren returned r
GetIssueWithChildren(issue, r) ==
    IF r.err # NilErr
    THEN Ret(Ptr(issue), Err("failed to load children: " \o r.err.msg))
    ELSE Ret(Ptr([issue EXCEPT !.Children = r.rec]), NilErr)

\* a variant that leaves out an empty description, as the omitempty tag of
\* CreateIssueInput would
CreateIssueVariablesOmitEmpty(input) ==
    JObj([input |-> JObj(
        [teamId |-> JStr(input.TeamID),
         title |-> JStr(input.Title),
         description |-> IF input.Description # "" THEN JStr(input.Description) ELSE Absent,
         priority |-> IF input.Priority > 0 THEN JInt(input.Priority) ELSE Absent,
         stateId |-> IF input.StateID # "" THEN JStr(input.StateID) ELSE Absent,
         assigneeId |-> IF input.AssigneeID # "" THEN JStr(input.AssigneeID) ELSE Absent,
         projectId |-> IF input.ProjectID # "" THEN JStr(input.ProjectID) ELSE Absent,
         parentId |-> IF input.ParentID # "" THEN JStr(input.ParentID) ELSE Absent])])

CreateIssueVariables(input) ==
    JObj([input |-> JObj(
        [teamId |-> JStr(input.TeamID),
         title |-> JStr(input.Title),
         description |-> JStr(input.Description),
         priority |-> IF input.Priority > 0 THEN JInt(input.Priority) ELSE Absent,
         stateId |-> IF input.StateID # "" THEN JStr(input.StateID) ELSE Absent,
         assigneeId |-> IF input.AssigneeID # "" THEN JStr(input.AssigneeID) ELSE Absent,
         projectId |-> IF input.ProjectID # "" THEN JStr(input.ProjectID) ELSE Absent,
         parentId |-> IF input.ParentID # "" THEN JStr(input.ParentID) ELSE Absent])])

\* the checks and the mapping shared, line for line, by CreateIssue
\* (container "issueCreate") and UpdateIssue (container "issueUpdate")
\* a variant that fails only on an explicit "success": false
IssueMutationResultLenient(x, container, failure) ==
    IF x.err # NilErr THEN Ret(NilPtr, x.err)
    ELSE LET containerData == Get(x.resp.v.Data, container)
             success == Get(containerData, "success")
             issueData == Get(containerData, "issue")
         IN  IF ~IsMap(containerData)
             THEN Ret(NilPtr, Err("invalid " \o container \o " data format"))
             ELSE IF success.kind = "bool" /\ ~success.b
             THEN Ret(NilPtr, Err(failure))
             ELSE IF ~IsMap(issueData)
             THEN Ret(NilPtr, Err("invalid issue data format"))
             ELSE Ret(Ptr(IssueOfMutation(issueData)), NilErr)

IssueMutationResult(x, container, failure) ==
    IF x.err # NilErr THEN Ret(NilPtr, x.err)
    ELSE LET containerData == Get(x.resp.v.Data, container)
             success == Get(containerData, "success")
             issueData == Get(containerData, "issue")
         IN  IF ~IsMap(containerData)
             THEN Ret(NilPtr, Err("invalid " \o container \o " data format"))
             ELSE IF ~(success.kind = "bool" /\ success.b)
             THEN Ret(NilPtr, Err(failure))
             ELSE IF ~IsMap(issueData)
             THEN Ret(NilPtr, Err("invalid issue data format"))
             ELSE Ret(Ptr(IssueOfMutation(issueData)), NilErr)

CreateIssueResult(x) ==
    IssueMutationResult(x, "issueCreate", "issue creation was not successful")

GetIssueChildrenVariables(issueID, opts) ==
    LET first == IF opts.kind = "ptr" /\ opts.v.First > 0 /\ opts.v.First <= 100
                 THEN opts.v.First ELSE 50
    IN  JObj([id |-> JStr(issueID), first |-> JInt(first)])

GetIssueChildrenResult(x) ==
    IF x.err # NilErr THEN Ret(NilSlice, x.err)
    ELSE LET issueData == Get(x.resp.v.Data, "issue")
             childrenData == Get(issueData, "children")
             nodesData == Get(childrenData, "nodes")
         IN  IF ~IsMap(issueData)
             THEN Ret(NilSlice, Err("invalid issue data format"))
             ELSE IF ~IsMap(childrenData)
             THEN Ret(NilSlice, Err("invalid children data format"))
             ELSE IF ~IsArr(nodesData)
             THEN Ret(NilSlice, Err("invalid children nodes format"))
             ELSE IF \E i \in 1..Len(nodesData.elems) : ~IsMap(nodesData.elems[i])
             THEN Ret(NilSlice, Err("invalid child node format"))
             ELSE Ret(Slice(MapSeq(nodesData.elems, IssueOfNode)), NilErr)

\* a *string or *int field of an update input: sent when the pointer is set
PtrField(p, J(_)) == IF p.kind = "ptr" THEN J(p.v) ELSE Absent

\* a variant that sends a field only when it points to a non-zero value
UpdateIssueVariablesNonZero(issueID, input) ==
    [kind |-> "object",
     fields |-> [id |-> JStr(issueID),
                 input |-> JObj(
                    [title |-> IF input.Title \notin {NilPtr, Ptr("")}
                               THEN JStr(input.Title.v) ELSE Absent,
                     description |-> PtrField(input.Description, JStr),
                     priority |-> IF input.Priority \notin {NilPtr, Ptr(0)}
                                  THEN JInt(input.Priority.v) ELSE Absent,
                     stateId |-> PtrField(input.StateID, JStr),
                     assigneeId |-> PtrField(input.AssigneeID, JStr),
                     projectId |-> IF input.ProjectID \notin {NilPtr, Ptr("")}
                                   THEN JStr(input.ProjectID.v) ELSE Absent,
                     parentId |-> PtrField(input.ParentID, JStr)])]]

UpdateIssueVariables(issueID, input) ==
    [kind |-> "object",
     fields |-> [id |-> JStr(issueID),
                 input |-> JObj(
                    [title |-> PtrField(input.Title, JStr),
                     description |-> PtrField(input.Description, JStr),
                     priority |-> PtrField(input.Priority, JInt),
                     stateId |-> PtrField(input.StateID, JStr),
                     assigneeId |-> PtrField(input.AssigneeID, JStr),
                     projectId |-> PtrField(input.ProjectID, JStr),
                     parentId |-> PtrField(input.ParentID, JStr)])]]

UpdateIssueResult(x) ==
    IssueMutationResult(x, "issueUpdate", "issue update was not successful")


(***************************************************************************)
(* project.go: GetProjects, GetProject, CreateProject, GetProjectIssues,   *)
(* UpdateProject.                                                          *)
(***************************************************************************)
GetProjectsVariables(opts) ==
    LET first == IF opts.kind = "ptr" /\ opts.v.First > 0 /\ opts.v.First <= 100
                 THEN opts.v.First ELSE 50
    IN  JObj([first |-> JInt(first)])

\* fmt.Sprintf of the query text around the optional filter clause
GetProjectsQuery(opts) ==
    LET filterClause == IF opts.kind = "ptr" /\ opts.v.State # ""
                        THEN ", filter: { state: { eq: \"" \o opts.v.State \o "\" } }"
                        ELSE ""
    IN  "query GetProjects($first: Int!) { projects(first: $first"
        \o filterClause \o ") { nodes { ... } } }"

GetProjectsResult(x) ==
    IF x.err # NilErr THEN Ret(NilSlice, x.err)
    ELSE LET projectsData == Get(x.resp.v.Data, "projects")
             nodesData == Get(projectsData, "nodes")
         IN  IF ~IsMap(projectsData)
             THEN Ret(NilSlice, Err("invalid projects data format"))
             ELSE IF ~IsArr(nodesData)
             THEN Ret(NilSlice, Err("invalid projects nodes format"))
             ELSE IF \E i \in 1..Len(nodesData.elems) : ~IsMap(nodesData.elems[i])
             THEN Ret(NilSlice, Err("invalid project node format"))
             ELSE Ret(Slice(MapSeq(nodesData.elems, ProjectOfMap)), NilErr)

GetProjectQuery == "query GetProject($id: String!) { project(id: $id) { ... } }"

GetProjectVariables(projectID) == JObj([id |-> JStr(projectID)])

GetProjectResult(x) ==
    IF x.err # NilErr THEN Ret(NilPtr, x.err)
    ELSE LET projectData == Get(x.resp.v.Data, "project")
         IN  IF ~IsMap(projectData)
             THEN Ret(NilPtr, Err("invalid project data format"))
             ELSE Ret(Ptr(ProjectOfMap(projectData)), NilErr)

\* []string as a JSON array
JStrings(ss) == JArr(MapSeq(ss, JStr))

CreateProjectQuery ==
    "mutation CreateProject($input: ProjectCreateInput!) { projectCreate(input: $input) { ... } }"

CreateProjectVariables(input) ==
    JObj([input |-> JObj(
        [name |-> JStr(input.Name),
         description |-> JStr(input.Description),
         icon |-> IF input.Icon # "" THEN JStr(input.Icon) ELSE Absent,
         color |-> IF input.Color # "" THEN JStr(input.Color) ELSE Absent,
         state |-> IF input.State # "" THEN JStr(input.State) ELSE Absent,
         teamIds |-> IF Len(input.TeamIDs) > 0 THEN JStrings(input.TeamIDs) ELSE Absent,
         leadId |-> IF input.LeadID # "" THEN JStr(input.LeadID) ELSE Absent,
         startDate |-> IF input.StartDate # "" THEN JStr(input.StartDate) ELSE Absent,
         targetDate |-> IF input.TargetDate # "" THEN JStr(input.TargetDate) ELSE Absent])])

\* the checks and the mapping shared, line for line, by CreateProject
\* (container "projectCreate") and UpdateProject (container "projectUpdate")
\* a variant that looks for the project before it looks at "success"
ProjectMutationResultEntityFirst(x, container, failure) ==
    IF x.err # NilErr THEN Ret(NilPtr, x.err)
    ELSE LET containerData == Get(x.resp.v.Data, container)
             success == Get(containerData, "success")
             projectData == Get(containerData, "project")
         IN  IF ~IsMap(containerData)
             THEN Ret(NilPtr, Err("invalid " \o container \o " data format"))
             ELSE IF ~IsMap(projectData)
             THEN Ret(NilPtr, Err("invalid project data format"))
             ELSE IF ~(success.kind = "bool" /\ success.b)
             THEN Ret(NilPtr, Err(failure))
             ELSE Ret(Ptr(ProjectOfMap(projectData)), NilErr)

ProjectMutationResult(x, container, failure) ==
    IF x.err # NilErr THEN Ret(NilPtr, x.err)
    ELSE LET containerData == Get(x.resp.v.Data, container)
             success == Get(containerData, "success")
             projectData == Get(containerData, "project")
         IN  IF ~IsMap(containerData)
             THEN Ret(NilPtr, Err("invalid " \o container \o " data format"))
             ELSE IF ~(success.kind = "bool" /\ success.b)
             THEN Ret(NilPtr, Err(failure))
             ELSE IF ~IsMap(projectData)
             THEN Ret(NilPtr, Err("invalid project data format"))
             ELSE Ret(Ptr(ProjectOfMap(projectData)), NilErr)

CreateProjectResult(x) ==
    ProjectMutationResult(x, "projectCreate", "project creation was not successful")

\* opts is not read
GetProjectIssuesVariables(projectID, opts) ==
    JObj([projectId |-> JStr(projectID)])

\* the Issue literal of GetProjectIssues nodes
IssueOfProjectNode(nodeMap) ==
    [ZeroIssue EXCEPT
       !.ID = safeGetString(nodeMap, "id"),
       !.Title = safeGetString(nodeMap, "title"),
       !.Description = safeGetString(nodeMap, "description"),
       !.Assignee = UserOf(nodeMap, "assignee")]

\* "issues" and its "nodes" are optional here, and elements that are no
\* objects are skipped (continue)
GetProjectIssuesResult(x) ==
    IF x.err # NilErr THEN Ret(NilPtr, x.err)
    ELSE LET projectData == Get(x.resp.v.Data, "project")
             issuesData == Get(projectData, "issues")
             nodesData == Get(issuesData, "nodes")
         IN  IF ~IsMap(projectData)
             THEN Ret(NilPtr, Err("invalid project data format"))
             ELSE Ret(Ptr([ID |-> safeGetString(projectData, "id"),
                           Status |-> ProjectStatusOf(projectData),
                           Issues |-> IF IsMap(issuesData) /\ IsArr(nodesData)
                                      THEN Slice(MapSeq(SelectSeq(nodesData.elems, IsMap),
                                                        IssueOfProjectNode))
                                      ELSE NilSlice]), NilErr)

UpdateProjectQuery ==
    "mutation UpdateProject($id: String!, $input: ProjectUpdateInput!) { projectUpdate(id: $id, input: $input) { ... } }"

UpdateProjectVariables(projectID, input) ==
    [kind |-> "object",
     fields |-> [id |-> JStr(projectID),
                 input |-> JObj(
                    [name |-> PtrField(input.Name, JStr),
                     description |-> PtrField(input.Description, JStr),
                     icon |-> PtrField(input.Icon, JStr),
                     color |-> PtrField(input.Color, JStr),
                     state |-> PtrField(input.State, JStr),
                     teamIds |-> IF Len(input.TeamIDs) > 0
                                 THEN JStrings(input.TeamIDs) ELSE Absent,
                     leadId |-> PtrField(input.LeadID, JStr),
                     startDate |-> PtrField(input.StartDate, JStr),
                     targetDate |-> PtrField(input.TargetDate, JStr)])]]

UpdateProjectResult(x) ==
    ProjectMutationResult(x, "projectUpdate", "project update was not successful")


(***************************************************************************)
(* The inputs the model draws from: arguments of the calls.                *)
(***************************************************************************)
APIKeys == {"test_api_key", "lin_api_XYZ"}
Options == {WithURL(CustomURL), WithURL(InvalidURL),
            WithHTTPClient("customHTTPClient"), WithHTTPClient(DefaultClient)}
OptionLists == UNION {[1..n -> Options] : n \in 0..MaxOpts}

\* arguments of direct ExecuteGraphQL calls
Queries == {"query {}", GetViewerQuery}
VariableSets == {NilMap, JObj(<<>>), JObj([id |-> JStr("issue-1")]),
                 JObj([id |-> JStr("issue-1"), first |-> JInt(5)])}

Firsts == {-1, 0, 1, 50, 100, 101, 500}
ListOptions == {NilPtr} \cup {Ptr([First |-> n]) : n \in Firsts}
GetProjectsOptionSet ==
    {NilPtr} \cup {Ptr([First |-> n, State |-> st]) :
                      n \in {0, 1, 100, 101}, st \in {"", "started"}}
\* the options the get_issue tool builds from its arguments: ChildrenFirst is
\* left at its zero value
GetIssueToolOptions(includeChildren) ==
    Ptr([IncludeChildren |-> includeChildren, ChildrenFirst |-> 0])

GetIssueOptionSet ==
    {NilPtr} \cup {Ptr([IncludeChildren |-> b, ChildrenFirst |-> n]) :
                      b \in BOOLEAN, n \in {0, 7, 101}}

OptStr(v) == {"", v}
\* each optional field is varied beside a few others, the rest held fixed
CreateIssueInputs ==
    [TeamID : {"team-1"}, Title : {"Fix it"}, Description : OptStr("text"),
     Priority : {-1, 0, 2}, StateID : OptStr("state-1"),
     AssigneeID : {""}, ProjectID : {""}, ParentID : {""}]
    \cup
    [TeamID : {"team-1"}, Title : {"Fix it"}, Description : {"text"},
     Priority : {2}, StateID : {"state-1"},
     AssigneeID : OptStr("user-1"), ProjectID : OptStr("project-1"),
     ParentID : OptStr("issue-0")]

OptPtr(vals) == {NilPtr} \cup {Ptr(v) : v \in vals}
UpdateIssueInputs ==
    [Title : OptPtr({"", "New title"}), Description : OptPtr({"text"}),
     Priority : OptPtr({0, 3}), StateID : {NilPtr},
     AssigneeID : {NilPtr}, ProjectID : {NilPtr}, ParentID : {NilPtr}]
    \cup
    [Title : {Ptr("New title")}, Description : {NilPtr}, Priority : {NilPtr},
     StateID : OptPtr({"state-2"}), AssigneeID : OptPtr({"user-1"}),
     ProjectID : OptPtr({"", "project-1"}), ParentID : OptPtr({"issue-0"})]

CreateProjectInputs ==
    [Name : {"Apollo"}, Description : OptStr("text"), Icon : OptStr("rocket"),
     Color : {""}, State : OptStr("planned"),
     TeamIDs : {<<>>, <<"team-1", "team-2">>},
     LeadID : {""}, StartDate : {""}, TargetDate : {""}]
    \cup
    [Name : {"Apollo"}, Description : {""}, Icon : {""},
     Color : OptStr("#ff0000"), State : {""}, TeamIDs : {<<"team-1">>},
     LeadID : OptStr("user-1"), StartDate : OptStr("2024-01-01"),
     TargetDate : OptStr("2024-06-30")]

UpdateProjectInputs ==
    [Name : OptPtr({"", "Apollo 2"}), Description : OptPtr({"text"}),
     Icon : {NilPtr}, Color : {NilPtr}, State : OptPtr({"started"}),
     TeamIDs : {<<>>, <<"team-1">>}, LeadID : {NilPtr},
     StartDate : {NilPtr}, TargetDate : {NilPtr}]
    \cup
    [Name : {NilPtr}, Description : {NilPtr}, Icon : OptPtr({"rocket"}),
     Color : OptPtr({"#ff0000"}), State : {NilPtr}, TeamIDs : {<<>>},
     LeadID : OptPtr({"user-1"}), StartDate : {NilPtr},
     TargetDate : OptPtr({"2024-06-30"})]

(***************************************************************************)
(* The inputs the model draws from: outcomes of the HTTP round trip.       *)
(* A body is the JSON value the server sent, or NotJSON.                   *)
(***************************************************************************)
NotJSON == [kind |-> "notjson"]
TransportFailure == [kind |-> "fail", cause |-> "dial tcp: connection refused"]
Http(status, body) == [kind |-> "response", status |-> status, body |-> body]
Body(data, errors) == JObj([data |-> data, errors |-> errors])

Messages == {"not found", "Test GraphQL error"}
ErrorLists == UNION {[1..n -> Messages] : n \in 1..MaxErrors}
ErrorJSON(m) == JObj([message |-> JStr(m)])
ErrorsJSON(msgs) == JArr(MapSeq(msgs, ErrorJSON))

\* the outcomes for an operation whose interesting "data" values are datas,
\* full being a "data" the operation maps without error
Outcomes(datas, full) ==
    {TransportFailure, Http(200, NotJSON), Http(500, NotJSON),
     Http(200, Body(JStr("oops"), Absent)),
     Http(500, Body(Absent, JStr("oops"))),
     Http(200, Body(full, JArr(<<JStr("oops")>>))),
     Http(200, Body(Null, Absent)),
     Http(200, Body(full, JArr(<<>>))),
     Http(200, Body(full, JArr(<<JObj([path |-> JStr("viewer")])>>))),
     Http(500, Body(full, Absent)),
     Http(404, Body(Null, Absent)),
     Http(500, Body(full, ErrorsJSON(<<"not found">>)))}
    \cup {Http(200, Body(d, Absent)) : d \in datas}
    \cup {Http(200, Body(Absent, ErrorsJSON(e))) : e \in ErrorLists}
    \cup {Http(200, Body(full, ErrorsJSON(e))) : e \in ErrorLists}

StateJSON == JObj([id |-> JStr("state-1"), name |-> JStr("Todo")])
UserJSON == JObj([id |-> JStr("user-1"), name |-> JStr("Ann"),
                  email |-> JStr("ann@example.com")])
ParentJSON == JObj([id |-> JStr("issue-0"), identifier |-> JStr("ENG-1"),
                    title |-> JStr("Parent")])
ProjectRefJSON == JObj([id |-> JStr("project-1"), name |-> JStr("Apollo")])
StatusJSON == JObj([id |-> JStr("status-1"), name |-> JStr("In Progress")])
TeamJSON == JObj([id |-> JStr("team-1"), name |-> JStr("Engineering"),
                  key |-> JStr("ENG")])

\* sequences of at most MaxNodes elements of vals
NodeSeqs(vals) == UNION {[1..n -> vals] : n \in 0..MaxNodes}
\* a connection { nodes [...] } with its mis-shaped variants
Connections(vals) ==
    {Absent, JStr("oops"), JObj([nodes |-> Absent]), JObj([nodes |-> JStr("oops")])}
    \cup {JObj([nodes |-> JArr(s)]) : s \in NodeSeqs(vals)}
FullConnection(node) == JObj([nodes |-> JArr(<<node>>)])

\* the ways an optional sub-object is missing
Missing == {Absent, Null, JStr("oops")}
\* (state, assignee, project, parent): each present or absent, and each in
\* turn null or mis-typed beside the others present
SubObjects ==
    ({StateJSON, Absent} \X {UserJSON, Absent} \X {ProjectRefJSON, Absent}
        \X {ParentJSON, Absent})
    \cup {<<m, UserJSON, ProjectRefJSON, ParentJSON>> : m \in Missing}
    \cup {<<StateJSON, m, ProjectRefJSON, ParentJSON>> : m \in Missing}
    \cup {<<StateJSON, UserJSON, m, ParentJSON>> : m \in Missing}
    \cup {<<StateJSON, UserJSON, ProjectRefJSON, m>> : m \in Missing}

IssueJSON(sub) ==
    JObj([id |-> JStr("issue-1"), identifier |-> JStr("ENG-2"),
          title |-> JStr("Fix it"), description |-> JStr("text"),
          priority |-> JNum(25), createdAt |-> JStr("2024-01-01"),
          updatedAt |-> JStr("2024-01-02"), url |-> JStr("https://linear.app/ENG-2"),
          branchName |-> JStr("eng-2-fix-it"),
          state |-> sub[1], assignee |-> sub[2], project |-> sub[3],
          parent |-> sub[4]])
\* scalars absent, null or of the wrong type
SparseIssueJSON(sub) ==
    JObj([id |-> JNum(70), identifier |-> Absent, title |-> Null,
          description |-> JBool(TRUE), priority |-> JStr("high"),
          createdAt |-> Absent, updatedAt |-> Null, url |-> JNum(10),
          branchName |-> Absent,
          state |-> sub[1], assignee |-> sub[2], project |-> sub[3],
          parent |-> sub[4]])
AllSub == <<StateJSON, UserJSON, ProjectRefJSON, ParentJSON>>
NoSub == <<Absent, Absent, Absent, Absent>>
FullIssue == IssueJSON(AllSub)
IssuePayloads ==
    {IssueJSON(sub) : sub \in SubObjects}
    \cup {SparseIssueJSON(AllSub), SparseIssueJSON(NoSub),
          IssueJSON(<<JObj([id |-> JNum(10)]), JObj([name |-> JStr("Bob")]),
                      JObj([id |-> JStr("project-2")]), JObj([title |-> Null])>>)}
IssueNodes == {FullIssue, SparseIssueJSON(<<Null, JObj([id |-> JStr("user-2")]), Absent, Absent>>),
               JStr("oops")}


TeamsJSON == JObj([nodes |-> JArr(<<TeamJSON>>)])
TeamsVariants ==
    {TeamsJSON, Absent, Null, JObj([nodes |-> JStr("oops")]),
     JObj([nodes |-> JArr(<<JStr("oops"), TeamJSON,
                            JObj([id |-> JStr("team-2"), name |-> JNum(10)])>>)])}
ProjectIssuesJSON ==
    JObj([nodes |-> JArr(<<JObj([id |-> JStr("issue-1"),
                                 identifier |-> JStr("ENG-2"),
                                 title |-> JStr("Fix it")])>>)])

\* sub is (status, lead, teams, issues)
ProjectJSON(sub) ==
    JObj([id |-> JStr("project-1"), name |-> JStr("Apollo"),
          description |-> JStr("text"), icon |-> JStr("rocket"),
          color |-> JStr("#ff0000"), state |-> JStr("started"),
          createdAt |-> JStr("2024-01-01"), updatedAt |-> JStr("2024-01-02"),
          startedAt |-> JStr("2024-01-03"), targetDate |-> JStr("2024-06-30"),
          sortOrder |-> JNum(15), url |-> JStr("https://linear.app/project/apollo"),
          status |-> sub[1], lead |-> sub[2], teams |-> sub[3],
          issues |-> sub[4]])
SparseProjectJSON ==
    JObj([id |-> JNum(10), name |-> Null, state |-> JBool(FALSE),
          sortOrder |-> JStr("1.5"), lead |-> JObj([id |-> JNum(10)])])
FullProject == ProjectJSON(<<StatusJSON, UserJSON, TeamsJSON, ProjectIssuesJSON>>)
ProjectPayloads ==
    {ProjectJSON(<<StatusJSON, l, t, ProjectIssuesJSON>>) :
        l \in {UserJSON} \cup Missing, t \in TeamsVariants}
    \cup {ProjectJSON(<<st, UserJSON, TeamsJSON, i>>) :
            st \in {StatusJSON, Absent}, i \in {ProjectIssuesJSON, Absent}}
    \cup {SparseProjectJSON}

\* "data" values of a mutation: the container mis-shaped, success anything
\* but true beside an entity or none, success true beside each payload
MutationDatas(container, entity, payloads, full) ==
    {JObj((container :> c)) : c \in {Absent, Null, JStr("oops")}}
    \cup {JObj((container :> JObj(("success" :> sc) @@ (entity :> e)))) :
            sc \in {JBool(FALSE), Absent, Null, JStr("true")},
            e \in {full, Absent}}
    \cup {JObj((container :> JObj(("success" :> JBool(TRUE)) @@ (entity :> e)))) :
            e \in payloads \cup Missing}

ViewerDatas ==
    {JObj([viewer |-> v]) : v \in Missing}
    \cup {JObj([viewer |-> JObj([id |-> i, name |-> n, email |-> e])]) :
            i \in {JStr("user-1"), JNum(10), Absent},
            n \in {JStr("Ann"), Null}, e \in {JStr("ann@example.com"), Absent}}
FullViewer == JObj([viewer |-> UserJSON])

TeamNodes == {TeamJSON, JObj([id |-> JStr("team-2"), name |-> JNum(10)]),
              JStr("oops")}
TeamsDatas == {JObj([teams |-> c]) : c \in Connections(TeamNodes)}
FullTeams == JObj([teams |-> TeamsJSON])

TeamProjectNodes ==
    {JObj([id |-> JStr("project-1"), name |-> JStr("Apollo"),
           slugId |-> JStr("apollo-1"), status |-> StatusJSON]),
     JObj([id |-> JNum(10), status |-> Null]), JStr("oops")}
TeamProjectsDatas ==
    {JObj([team |-> t]) : t \in {Absent, JStr("oops")}}
    \cup {JObj([team |-> JObj([projects |-> c])]) : c \in Connections(TeamProjectNodes)}
FullTeamProjects ==
    JObj([team |-> JObj([projects |-> JObj([nodes |-> JArr(<<
        JObj([id |-> JStr("project-1"), name |-> JStr("Apollo"),
              slugId |-> JStr("apollo-1"), status |-> StatusJSON])>>)])])])

TeamIssuesDatas ==
    {JObj([team |-> t]) : t \in {Absent, JStr("oops")}}
    \cup {JObj([team |-> JObj([issues |-> c])]) : c \in Connections(IssueNodes)}
FullTeamIssues == JObj([team |-> JObj([issues |-> FullConnection(FullIssue)])])

IssueDatas == {JObj([issue |-> i]) : i \in IssuePayloads \cup Missing}
FullIssueData == JObj([issue |-> FullIssue])

IssueChildrenDatas ==
    {JObj([issue |-> i]) : i \in {Absent, JStr("oops")}}
    \cup {JObj([issue |-> JObj([children |-> c])]) : c \in Connections(IssueNodes)}
FullIssueChildren ==
    JObj([issue |-> JObj([children |-> FullConnection(FullIssue)])])

IssueCreateDatas == MutationDatas("issueCreate", "issue", IssuePayloads, FullIssue)
FullIssueCreate ==
    JObj([issueCreate |-> JObj([success |-> JBool(TRUE), issue |-> FullIssue])])
IssueUpdateDatas == MutationDatas("issueUpdate", "issue", IssuePayloads, FullIssue)
FullIssueUpdate ==
    JObj([issueUpdate |-> JObj([success |-> JBool(TRUE), issue |-> FullIssue])])

ProjectsDatas == {JObj([projects |-> c]) : c \in Connections({FullProject, SparseProjectJSON, JStr("oops")})}
FullProjects == JObj([projects |-> FullConnection(FullProject)])

ProjectDatas == {JObj([project |-> pr]) : pr \in ProjectPayloads \cup Missing}
FullProjectData == JObj([project |-> FullProject])

ProjectCreateDatas ==
    MutationDatas("projectCreate", "project", ProjectPayloads, FullProject)
FullProjectCreate ==
    JObj([projectCreate |-> JObj([success |-> JBool(TRUE), project |-> FullProject])])
ProjectUpdateDatas ==
    MutationDatas("projectUpdate", "project", ProjectPayloads, FullProject)
FullProjectUpdate ==
    JObj([projectUpdate |-> JObj([success |-> JBool(TRUE), project |-> FullProject])])

ProjectIssueNodes ==
    {JObj([id |-> JStr("issue-1"), title |-> JStr("Fix it"),
           description |-> JStr("text"), assignee |-> UserJSON]),
     JObj([id |-> JNum(10), assignee |-> Null]), JStr("oops")}
ProjectIssuesDatas ==
    {JObj([project |-> pr]) : pr \in Missing}
    \cup {JObj([project |-> JObj([id |-> JStr("project-1"), status |-> st,
                                  issues |-> c])]) :
            st \in {StatusJSON, Absent}, c \in Connections(ProjectIssueNodes)}
FullProjectIssues ==
    JObj([project |-> JObj([id |-> JStr("project-1"), status |-> StatusJSON,
                            issues |-> FullConnection(
                                JObj([id |-> JStr("issue-1"), title |-> JStr("Fix it"),
                                      description |-> JStr("text"),
                                      assignee |-> UserJSON]))])])


(***************************************************************************)
(* Each operation up to httpCli.Do: the request to send, or the error that *)
(* ends the call before anything is sent.                                  *)
(***************************************************************************)
\* a query loaded from the embedded files, then ExecuteGraphQL up to Do
LoadedRequest(c, q, prefix, variables) ==
    IF q.err # NilErr
    THEN [req |-> NilPtr, err |-> Err(prefix \o q.err.msg)]
    ELSE ExecuteGraphQLRequest(c, q.text, variables)

GetViewerRequest(c) == ExecuteGraphQLRequest(c, GetViewerQuery, NilMap)
GetTeamsRequest(c) == ExecuteGraphQLRequest(c, GetTeamsQuery, NilMap)
GetTeamProjectsRequest(c, teamID, opts) ==
    LoadedRequest(c, getGraphQLQuery("get_team_projects.graphql"),
                  "failed to load GraphQL query: ",
                  GetTeamProjectsVariables(teamID, opts))
GetTeamIssuesRequest(c, teamID, opts) ==
    LoadedRequest(c, getGraphQLQuery("get_team_issues.graphql"),
                  "failed to load GetTeamIssues query: ",
                  GetTeamIssuesVariables(teamID, opts))
GetIssueRequest(c, issueID) ==
    LoadedRequest(c, getGraphQLQuery("get_issue.graphql"),
                  "failed to load GetIssue query: ", GetIssueVariables(issueID))
CreateIssueRequest(c, input) ==
    LoadedRequest(c, getGraphQLQuery("create_issue.graphql"),
                  "failed to load CreateIssue query: ", CreateIssueVariables(input))
GetIssueChildrenRequest(c, issueID, opts) ==
    LoadedRequest(c, getGraphQLQuery("get_issue_children.graphql"),
                  "failed to load GetIssueChildren query: ",
                  GetIssueChildrenVariables(issueID, opts))
UpdateIssueRequest(c, issueID, input) ==
    LoadedRequest(c, getGraphQLQuery("update_issue.graphql"),
                  "failed to load UpdateIssue query: ",
                  UpdateIssueVariables(issueID, input))
GetProjectsRequest(c, opts) ==
    ExecuteGraphQLRequest(c, GetProjectsQuery(opts), GetProjectsVariables(opts))
GetProjectRequest(c, projectID) ==
    ExecuteGraphQLRequest(c, GetProjectQuery, GetProjectVariables(projectID))
CreateProjectRequest(c, input) ==
    ExecuteGraphQLRequest(c, CreateProjectQuery, CreateProjectVariables(input))
GetProjectIssuesRequest(c, projectID, opts) ==
    LoadedRequest(c, getGraphQLQuery("get_project_issues.graphql"),
                  "failed to load GraphQL query: ",
                  GetProjectIssuesVariables(projectID, opts))
UpdateProjectRequest(c, projectID, input) ==
    ExecuteGraphQLRequest(c, UpdateProjectQuery,
                          UpdateProjectVariables(projectID, input))

(***************************************************************************)
(* The state machine.                                                      *)
(***************************************************************************)
NoFrame == [op |-> "none"]
NoResult == [kind |-> "none"]
Frame(op, args) == [op |-> op, args |-> args, phase |-> "primary", issue |-> NilPtr]

Init ==
    /\ client = NilPtr
    /\ newClientArgs = NilPtr
    /\ pc = "start"
    /\ frame = NoFrame
    /\ inflight = NilPtr
    /\ sent = <<>>
    /\ received = <<>>
    /\ result = NoResult
    /\ calls = <<>>
    /\ pending = {}
    /\ files = InitialFiles
    /\ process = NoProcess

\* client := NewClient(apiKey, opts...)
CallNewClient(apiKey, opts) ==
    /\ pc = "start"
    /\ client' = Ptr(NewClient(apiKey, opts))
    /\ newClientArgs' = Ptr([apiKey |-> apiKey, opts |-> opts])
    /\ pc' = "constructed"
    /\ UNCHANGED <<frame, inflight, sent, received, result, elsewhere>>

\* the constructed client is handed to its callers
StartCalls ==
    /\ pc = "constructed"
    /\ pc' = "idle"
    /\ newClientArgs' = NilPtr
    /\ UNCHANGED <<client, frame, inflight, sent, received, result, elsewhere>>

\* the operation of frame fr returns res (or panics)
Finish(fr, res) ==
    /\ pc' = IF res.kind = "panic" THEN "panicked" ELSE "returned"
    /\ result' = res
    /\ frame' = fr
    /\ inflight' = NilPtr

\* the operation of frame fr hands rq.req to httpCli.Do, or returns rq.err
Start(fr, rq) ==
    /\ IF rq.err # NilErr
       THEN Finish(fr, Ret(NilPtr, rq.err)) /\ UNCHANGED sent
       ELSE /\ pc' = "waiting"
            /\ frame' = fr
            /\ inflight' = rq.req
            /\ sent' = Append(sent, rq.req.v)
            /\ UNCHANGED result
    /\ UNCHANGED <<client, newClientArgs, received, elsewhere>>

\* a direct call of the exported ExecuteGraphQL
ExecuteGraphQL(query, variables) ==
    /\ pc = "idle"
    /\ Start(Frame("ExecuteGraphQL", [query |-> query, variables |-> variables]),
             ExecuteGraphQLRequest(client.v, query, variables))

GetViewer ==
    /\ pc = "idle"
    /\ Start(Frame("GetViewer", <<>>), GetViewerRequest(client.v))

GetTeams ==
    /\ pc = "idle"
    /\ Start(Frame("GetTeams", <<>>), GetTeamsRequest(client.v))

GetTeamProjects(teamID, opts) ==
    /\ pc = "idle"
    /\ Start(Frame("GetTeamProjects", [teamID |-> teamID, opts |-> opts]),
       GetTeamProjectsRequest(client.v, teamID, opts))

GetTeamIssues(teamID, opts) ==
    /\ pc = "idle"
    /\ Start(Frame("GetTeamIssues", [teamID |-> teamID, opts |-> opts]),
       GetTeamIssuesRequest(client.v, teamID, opts))

GetIssue(issueID, opts) ==
    /\ pc = "idle"
    /\ Start(Frame("GetIssue", [issueID |-> issueID, opts |-> opts]),
       GetIssueRequest(client.v, issueID))

CreateIssue(input) ==
    /\ pc = "idle"
    /\ Start(Frame("CreateIssue", [input |-> input]),
       CreateIssueRequest(client.v, input))

GetIssueChildren(issueID, opts) ==
    /\ pc = "idle"
    /\ Start(Frame("GetIssueChildren", [issueID |-> issueID, opts |-> opts]),
       GetIssueChildrenRequest(client.v, issueID, opts))

UpdateIssue(issueID, input) ==
    /\ pc = "idle"
    /\ Start(Frame("UpdateIssue", [issueID |-> issueID, input |-> input]),
       UpdateIssueRequest(client.v, issueID, input))

GetProjects(opts) ==
    /\ pc = "idle"
    /\ Start(Frame("GetProjects", [opts |-> opts]),
       GetProjectsRequest(client.v, opts))

GetProject(projectID) ==
    /\ pc = "idle"
    /\ Start(Frame("GetProject", [projectID |-> projectID]),
       GetProjectRequest(client.v, projectID))

CreateProject(input) ==
    /\ pc = "idle"
    /\ Start(Frame("CreateProject", [input |-> input]),
       CreateProjectRequest(client.v, input))

GetProjectIssues(projectID, opts) ==
    /\ pc = "idle"
    /\ Start(Frame("GetProjectIssues", [projectID |-> projectID, opts |-> opts]),
       GetProjectIssuesRequest(client.v, projectID, opts))

UpdateProject(projectID, input) ==
    /\ pc = "idle"
    /\ Start(Frame("UpdateProject", [projectID |-> projectID, input |-> input]),
       UpdateProjectRequest(client.v, projectID, input))

\* the outcomes httpCli.Do may give the request of frame fr
OutcomesOf(fr) ==
    CASE fr.op = "ExecuteGraphQL" -> Outcomes(ViewerDatas, FullViewer)
      [] fr.op = "GetViewer" -> Outcomes(ViewerDatas, FullViewer)
      [] fr.op = "GetTeams" -> Outcomes(TeamsDatas, FullTeams)
      [] fr.op = "GetTeamProjects" -> Outcomes(TeamProjectsDatas, FullTeamProjects)
      [] fr.op = "GetTeamIssues" -> Outcomes(TeamIssuesDatas, FullTeamIssues)
      [] fr.op = "GetIssue" /\ fr.phase = "primary" -> Outcomes(IssueDatas, FullIssueData)
      [] fr.op = "GetIssue" /\ fr.phase = "children" ->
            Outcomes(IssueChildrenDatas, FullIssueChildren)
      [] fr.op = "CreateIssue" -> Outcomes(IssueCreateDatas, FullIssueCreate)
      [] fr.op = "GetIssueChildren" -> Outcomes(IssueChildrenDatas, FullIssueChildren)
      [] fr.op = "UpdateIssue" -> Outcomes(IssueUpdateDatas, FullIssueUpdate)
      [] fr.op = "GetProjects" -> Outcomes(ProjectsDatas, FullProjects)
      [] fr.op = "GetProject" -> Outcomes(ProjectDatas, FullProjectData)
      [] fr.op = "CreateProject" -> Outcomes(ProjectCreateDatas, FullProjectCreate)
      [] fr.op = "GetProjectIssues" -> Outcomes(ProjectIssuesDatas, FullProjectIssues)
      [] fr.op = "UpdateProject" -> Outcomes(ProjectUpdateDatas, FullProjectUpdate)

\* the operation op from the return x of its (only) ExecuteGraphQL
ResultOf(op, x) ==
    CASE op = "ExecuteGraphQL" -> Ret(x.resp, x.err)
      [] op = "GetViewer" -> GetViewerResult(x)
      [] op = "GetTeams" -> GetTeamsResult(x)
      [] op = "GetTeamProjects" -> GetTeamProjectsResult(x)
      [] op = "GetTeamIssues" -> GetTeamIssuesResult(x)
      [] op = "CreateIssue" -> CreateIssueResult(x)
      [] op = "GetIssueChildren" -> GetIssueChildrenResult(x)
      [] op = "UpdateIssue" -> UpdateIssueResult(x)
      [] op = "GetProjects" -> GetProjectsResult(x)
      [] op = "GetProject" -> GetProjectResult(x)
      [] op = "CreateProject" -> CreateProjectResult(x)
      [] op = "GetProjectIssues" -> GetProjectIssuesResult(x)
      [] op = "UpdateProject" -> UpdateProjectResult(x)

\* GetIssue from the return x of its own ExecuteGraphQL: it returns, or it
\* calls GetIssueChildren, which sends the second request
GetIssueAfterPrimary(x) ==
    LET r == GetIssuePrimary(x)
        opts == frame.args.opts
        rq == GetIssueChildrenRequest(client.v, frame.args.issueID,
                                      GetIssueChildrenOpts(opts))
    IN  IF r.err # NilErr \/ ~GetIssueWantsChildren(opts)
        THEN Finish(frame, r) /\ UNCHANGED sent
        ELSE IF rq.err # NilErr
        THEN Finish(frame, GetIssueWithChildren(r.rec.v, Ret(NilSlice, rq.err)))
             /\ UNCHANGED sent
        ELSE /\ pc' = "waiting"
             /\ frame' = [frame EXCEPT !.phase = "children", !.issue = r.rec]
             /\ inflight' = rq.req
             /\ sent' = Append(sent, rq.req.v)
             /\ UNCHANGED result

\* httpCli.Do returns with outcome out, and the operation runs on to its
\* return or to its next request
Do(out) ==
    /\ pc = "waiting"
    /\ out \in OutcomesOf(frame)
    /\ received' = Append(received, out)
    /\ LET x == ExecuteGraphQLResponse(inflight.v, out)
       IN  IF frame.op = "GetIssue" /\ frame.phase = "primary"
           THEN GetIssueAfterPrimary(x)
           ELSE IF frame.op = "GetIssue"
           THEN Finish(frame, GetIssueWithChildren(frame.issue.v,
                                                   GetIssueChildrenResult(x)))
                /\ UNCHANGED sent
           ELSE Finish(frame, ResultOf(frame.op, x)) /\ UNCHANGED sent
    /\ UNCHANGED <<client, newClientArgs, elsewhere>>

\* httpCli.Do returns with one of the outcomes the request can have
HTTPDo ==
    /\ pc = "waiting"
    /\ \E out \in OutcomesOf(frame) : Do(out)

\* the caller takes the result; the call's frame is gone
Return ==
    /\ pc = "returned"
    /\ pc' = "idle"
    /\ frame' = NoFrame
    /\ inflight' = NilPtr
    /\ sent' = <<>>
    /\ received' = <<>>
    /\ result' = NoResult
    /\ UNCHANGED <<client, newClientArgs, elsewhere>>

Next ==
    \/ \E apiKey \in APIKeys, opts \in OptionLists : CallNewClient(apiKey, opts)
    \/ StartCalls
    \/ \E query \in Queries, variables \in VariableSets :
            ExecuteGraphQL(query, variables)
    \/ GetViewer
    \/ GetTeams
    \/ \E opts \in ListOptions : GetTeamProjects("team-1", opts)
    \/ \E opts \in ListOptions : GetTeamIssues("team-1", opts)
    \/ \E opts \in GetIssueOptionSet
                      \cup {GetIssueToolOptions(b) : b \in BOOLEAN} :
            GetIssue("issue-1", opts)
    \/ \E input \in CreateIssueInputs : CreateIssue(input)
    \/ \E opts \in ListOptions : GetIssueChildren("issue-1", opts)
    \/ \E input \in UpdateIssueInputs : UpdateIssue("issue-1", input)
    \/ \E opts \in GetProjectsOptionSet : GetProjects(opts)
    \/ GetProject("project-1")
    \/ \E input \in CreateProjectInputs : CreateProject(input)
    \/ \E opts \in ListOptions : GetProjectIssues("project-1", opts)
    \/ \E input \in UpdateProjectInputs : UpdateProject("project-1", input)
    \/ HTTPDo
    \/ Return

Spec == Init /\ [][Next]_vars

(***************************************************************************)
(* main.go: the tool handlers share the one client, and the dispatcher may *)
(* run several of them at once.  Each call has its own frame, requests and *)
(* result; httpCli.Do gives every request the response to that request.    *)
(***************************************************************************)
MaxCalls == 2
CallIDs == 1..MaxCalls
IdleCall == [pc |-> "idle"]

\* the clients main may have built (the key comes from the environment)
SharedClients == {NewClient("lin_api_XYZ", <<>>),
                  NewClient("test_api_key", <<WithURL(CustomURL)>>)}

\* the tool calls that run concurrently, as operation and arguments
ToolCalls ==
    {<<"GetTeams", <<>>>>,
     <<"GetTeamIssues", [teamID |-> "team-1", opts |-> Ptr([First |-> 1])]>>}
    \cup {<<"GetIssue", [issueID |-> "issue-1", opts |-> GetIssueToolOptions(b)]>> :
            b \in BOOLEAN}

\* a variant in which the request object is shared between calls: a call
\* that starts after another has ended sends that call's request again
RequestOfShared(c, op, args) ==
    LET before == {id \in DOMAIN calls : calls[id].pc = "returned"
                                          /\ Len(calls[id].sent) > 0}
    IN  IF before # {}
        THEN [req |-> Ptr(calls[CHOOSE id \in before : TRUE].sent[1]),
              err |-> NilErr]
        ELSE CASE op = "GetTeams" -> GetTeamsRequest(c)
               [] op = "GetTeamIssues" ->
                     GetTeamIssuesRequest(c, args.teamID, args.opts)
               [] op = "GetIssue" -> GetIssueRequest(c, args.issueID)

\* the first request of the operation op called with args on client c
RequestOf(c, op, args) ==
    CASE op = "GetTeams" -> GetTeamsRequest(c)
      [] op = "GetTeamIssues" -> GetTeamIssuesRequest(c, args.teamID, args.opts)
      [] op = "GetIssue" -> GetIssueRequest(c, args.issueID)

\* the outcomes a request of a concurrent call may have: a failure, two
\* different payloads, and a payload beside a GraphQL error
ToolOutcomes(fr) ==
    LET full ==
          CASE fr.op = "GetTeams" -> FullTeams
            [] fr.op = "GetTeamIssues" -> FullTeamIssues
            [] fr.op = "GetIssue" /\ fr.phase = "primary" -> FullIssueData
            [] fr.op = "GetIssue" /\ fr.phase = "children" -> FullIssueChildren
        datas ==
          CASE fr.op = "GetTeams" ->
                  {FullTeams,
                   JObj([teams |-> JObj([nodes |-> JArr(<<JObj([id |-> JStr("team-2"),
                                                                name |-> JNum(10)])>>)])])}
            [] fr.op = "GetTeamIssues" ->
                  {FullTeamIssues,
                   JObj([team |-> JObj([issues |-> JObj([nodes |-> JArr(<<>>)])])])}
            [] fr.op = "GetIssue" /\ fr.phase = "primary" ->
                  {FullIssueData, JObj([issue |-> SparseIssueJSON(NoSub)])}
            [] fr.op = "GetIssue" /\ fr.phase = "children" ->
                  {FullIssueChildren,
                   JObj([issue |-> JObj([children |-> JObj([nodes |-> JArr(<<>>)])])])}
    IN  {TransportFailure}
        \cup {Http(200, Body(d, Absent)) : d \in datas}
        \cup {Http(200, Body(full, ErrorsJSON(<<"not found">>)))}

ConcInit ==
    /\ client \in {Ptr(c) : c \in SharedClients}
    /\ newClientArgs = NilPtr
    /\ pc = "serving"
    /\ frame = NoFrame
    /\ inflight = NilPtr
    /\ sent = <<>>
    /\ received = <<>>
    /\ result = NoResult
    /\ calls = [id \in CallIDs |-> IdleCall]
    /\ pending = {}
    /\ files = InitialFiles
    /\ process = Serving

\* the calls that have ended
EndedCalls == {id \in CallIDs : calls[id].pc \in {"returned", "panicked", "aborted"}}

\* the dispatcher starts the handler of call id: the operation runs up to
\* its first httpCli.Do
Begin(id, op, args) ==
    /\ calls[id].pc = "idle"
    /\ LET rq == RequestOf(client.v, op, args)
           call == [pc |-> "waiting", frame |-> Frame(op, args),
                    sent |-> <<>>, received |-> <<>>, result |-> NoResult,
                    after |-> EndedCalls]
       IN  IF rq.err # NilErr
           THEN /\ calls' = [calls EXCEPT ![id] =
                               [call EXCEPT !.pc = "returned",
                                            !.result = Ret(NilPtr, rq.err)]]
                /\ UNCHANGED pending
           ELSE /\ calls' = [calls EXCEPT ![id] =
                               [call EXCEPT !.sent = <<rq.req.v>>]]
                /\ pending' = pending \cup {[id |-> id, req |-> rq.req.v]}
    /\ UNCHANGED <<client, newClientArgs, pc, frame, inflight, sent, received,
                   result, files, process>>

\* the call as it stands when httpCli.Do has returned out for its last
\* request: ended, or waiting for the answer to its next request
Resume(c, call, out) ==
    LET x == ExecuteGraphQLResponse(call.sent[Len(call.sent)], out)
        rcv == Append(call.received, out)
        done(res) == [call EXCEPT !.pc = IF res.kind = "panic" THEN "panicked"
                                         ELSE "returned",
                                  !.received = rcv,
                                  !.result = res]
        opts == call.frame.args.opts
        r == GetIssuePrimary(x)
        rq == GetIssueChildrenRequest(c, call.frame.args.issueID,
                                      GetIssueChildrenOpts(opts))
    IN  IF call.frame.op = "GetIssue" /\ call.frame.phase = "primary"
        THEN IF r.err # NilErr \/ ~GetIssueWantsChildren(opts)
             THEN done(r)
             ELSE IF rq.err # NilErr
             THEN done(GetIssueWithChildren(r.rec.v, Ret(NilSlice, rq.err)))
             ELSE [call EXCEPT !.frame.phase = "children",
                               !.frame.issue = r.rec,
                               !.sent = Append(@, rq.req.v),
                               !.received = rcv]
        ELSE IF call.frame.op = "GetIssue"
        THEN done(GetIssueWithChildren(call.frame.issue.v,
                                       GetIssueChildrenResult(x)))
        ELSE done(ResultOf(call.frame.op, x))

\* a variant in which the transport hands the response to a request to
\* whichever call is waiting, not to the call that made the request
RespondAny(p, out) ==
    /\ p \in pending
    /\ out \in ToolOutcomes(calls[p.id].frame)
    /\ \E q \in pending :
          LET next == Resume(client.v, calls[q.id], out)
          IN  /\ calls' = [calls EXCEPT ![q.id] = next]
              /\ pending' = (pending \ {q})
                              \cup IF next.pc = "waiting"
                                   THEN {[id |-> q.id, req |-> next.sent[Len(next.sent)]]}
                                   ELSE {}
    /\ UNCHANGED <<client, newClientArgs, pc, frame, inflight, sent, received,
                   result, files, process>>

\* httpCli.Do returns out for the pending request p, to the call that made
\* the request
Respond(p, out) ==
    /\ p \in pending
    /\ out \in ToolOutcomes(calls[p.id].frame)
    /\ LET next == Resume(client.v, calls[p.id], out)
       IN  /\ calls' = [calls EXCEPT ![p.id] = next]
           /\ pending' = (pending \ {p})
                           \cup IF next.pc = "waiting"
                                THEN {[id |-> p.id, req |-> next.sent[Len(next.sent)]]}
                                ELSE {}
    /\ UNCHANGED <<client, newClientArgs, pc, frame, inflight, sent, received,
                   result, files, process>>

\* a panic that nothing recovers ends the process: every call that has not
\* ended is cut off without a result
Crash ==
    /\ \E id \in CallIDs : calls[id].pc = "panicked"
    /\ \E id \in CallIDs : calls[id].pc \in {"idle", "waiting"}
    /\ calls' = [id \in CallIDs |->
                    IF calls[id].pc \in {"idle", "waiting"}
                    THEN [calls[id] EXCEPT !.pc = "aborted"]
                    ELSE calls[id]]
    /\ pending' = {}
    /\ UNCHANGED <<client, newClientArgs, pc, frame, inflight, sent, received,
                   result, files, process>>

\* httpCli.Do returns for one of the pending requests
HTTPRespond ==
    \E p \in pending : \E out \in ToolOutcomes(calls[p.id].frame) : Respond(p, out)

ConcNext ==
    \/ \E id \in CallIDs, tc \in ToolCalls : Begin(id, tc[1], tc[2])
    \/ HTTPRespond
    \/ Crash

ConcSpec == ConcInit /\ [][ConcNext]_vars


(***************************************************************************)
(* The download_attachment tool.  Its handler does not use the Client: it  *)
(* checks the URL, sends a GET of its own that carries the API key, and    *)
(* writes the body of a 200 response to the file path it was given.        *)
(***************************************************************************)

\* the URLs the tool is called with: three under the uploads host (one of
\* them with an escape that url.Parse refuses) and five that are not
AttachmentURLs ==
    {"https://uploads.linear.app/a.png",
     "https://uploads.linear.app/",
     "https://uploads.linear.app/%zz",
     "https://uploads.linear.app",
     "https://uploads.linear.app.evil.example/a.png",
     "http://uploads.linear.app/a.png",
     "HTTPS://uploads.linear.app/a.png",
     ""}
\* the URLs http.NewRequest returns an error for
UnparsableURLs == {"https://uploads.linear.app/%zz"}

\* a variant of the URL validation that compares the scheme and host only
ValidAttachmentURLHostOnly(url) == HasPrefix(url, "https://uploads.linear.app")

\* strings.HasPrefix(args.URL, "https://uploads.linear.app/")
ValidAttachmentURL(url) == HasPrefix(url, "https://uploads.linear.app/")

\* the GET request of the handler, with its two headers
AttachmentRequest(url, apiKey) ==
    [method |-> "GET", url |-> url,
     header |-> ("Content-Type" :> "application/json"
                 @@ "Authorization" :> apiKey),
     body |-> Absent]

\* what client.Do gives for the download: a failure, or a response whose
\* body reads in full or breaks off
DownloadOutcomes ==
    {TransportFailure}
    \cup {[kind |-> "response", status |-> st, body |-> "PNG", readFails |-> rf] :
            st \in {200, 404}, rf \in BOOLEAN}

\* the paths os.Create can open
CreatablePaths == {"/tmp/a.png", "/home/u/notes.txt"}

DownloadInit ==
    /\ client = Ptr(NewClient("lin_api_XYZ", <<>>))
    /\ newClientArgs = NilPtr
    /\ pc = "serving"
    /\ frame = NoFrame
    /\ inflight = NilPtr
    /\ sent = <<>>
    /\ received = <<>>
    /\ result = NoResult
    /\ calls = <<>>
    /\ pending = {}
    /\ files = InitialFiles
    /\ process = Serving

\* the handler of download_attachment up to client.Do
DownloadAttachment(url, filePath) ==
    /\ pc \in {"serving", "returned"}
    /\ frame' = [op |-> "download_attachment",
                 args |-> [URL |-> url, FilePath |-> filePath]]
    /\ received' = <<>>
    /\ IF ~ValidAttachmentURL(url)
       THEN /\ pc' = "returned"
            /\ result' = Ret(NilPtr, Err("invalid URL: must be from uploads.linear.app domain"))
            /\ sent' = <<>>
            /\ inflight' = NilPtr
       ELSE IF url \in UnparsableURLs
       THEN /\ pc' = "returned"
            /\ result' = Ret(NilPtr, Err("failed to create request: parse error"))
            /\ sent' = <<>>
            /\ inflight' = NilPtr
       ELSE /\ pc' = "waiting"
            /\ result' = NoResult
            /\ sent' = <<AttachmentRequest(url, client.v.apiKey)>>
            /\ inflight' = Ptr(AttachmentRequest(url, client.v.apiKey))
    /\ UNCHANGED <<client, newClientArgs, elsewhere>>

\* the handler of download_attachment from the return of client.Do on
DownloadDo(out) ==
    /\ pc = "waiting"
    /\ frame.op = "download_attachment"
    /\ pc' = "returned"
    /\ inflight' = NilPtr
    /\ received' = Append(received, out)
    /\ LET path == frame.args.FilePath
       IN  IF out.kind = "fail"
           THEN /\ result' = Ret(NilPtr, Err("failed to download attachment: " \o out.cause))
                /\ UNCHANGED files
           ELSE IF out.status # 200
           THEN /\ result' = Ret(NilPtr, Err("failed to download attachment: server returned status"))
                /\ UNCHANGED files
           ELSE IF path \notin CreatablePaths
           THEN /\ result' = Ret(NilPtr, Err("failed to create output file: no such file or directory"))
                /\ UNCHANGED files
           ELSE IF out.readFails
           THEN /\ result' = Ret(NilPtr, Err("failed to write attachment to file: unexpected EOF"))
                /\ files' = [files EXCEPT ![path] = File("")]
           ELSE /\ result' = Ret(Ptr("Successfully downloaded attachment to " \o path), NilErr)
                /\ files' = [files EXCEPT ![path] = File(out.body)]
    /\ UNCHANGED <<client, newClientArgs, frame, sent, calls, pending, process>>

DownloadCall ==
    \E url \in AttachmentURLs, filePath \in FilePaths : DownloadAttachment(url, filePath)
DownloadAnswer == \E out \in DownloadOutcomes : DownloadDo(out)
DownloadNext == DownloadCall \/ DownloadAnswer
DownloadSpec == DownloadInit /\ [][DownloadNext]_vars

(***************************************************************************)
(* main.go: the tool handlers.  A handler builds the options or the input  *)
(* of one client operation from its arguments, calls the operation, and    *)
(* returns the record marshalled into a tool response, or the operation's  *)
(* error behind its own prefix.  get_issue_by_identifier calls an          *)
(* operation whose code is not in the repository and is left out;          *)
(* download_attachment has its own section above.                          *)
(***************************************************************************)

\* the tools and the arguments they are called with
ToolArguments ==
    {<<"get_issue", [ID |-> "issue-1", IncludeChildren |-> b]>> : b \in BOOLEAN}
    \cup {<<t, [ID |-> "team-1", First |-> n]>> :
             t \in {"get_team_issues", "get_team_projects"}, n \in {0, 7}}
    \cup {<<"get_issue_children", [ID |-> "issue-1", First |-> n]>> : n \in {0, 7}}
    \cup {<<"get_project_issues", [ID |-> "project-1", First |-> n]>> : n \in {0, 7}}
    \cup {<<"get_teams", <<>>>>}
    \cup {<<"create_issue",
             [TeamID |-> "team-1", Title |-> "Fix it", Description |-> "",
              Priority |-> 0, StateID |-> st, AssigneeID |-> "",
              ProjectID |-> "", ParentID |-> ""]>> : st \in OptStr("state-1")}
    \cup {<<"update_issue",
             [IssueID |-> "issue-1", Title |-> t, Description |-> NilPtr,
              Priority |-> NilPtr, StateID |-> NilPtr, AssigneeID |-> NilPtr,
              ProjectID |-> NilPtr, ParentID |-> NilPtr]>> :
             t \in OptPtr({"New title"})}
    \cup {<<"create_project",
             [Name |-> "Apollo", Description |-> d, Icon |-> "", Color |-> "",
              State |-> "", TeamIDs |-> <<"team-1">>, LeadID |-> ""]>> :
             d \in OptStr("text")}
    \cup {<<"update_project",
             [ProjectID |-> "project-1", Name |-> n, Description |-> "",
              Icon |-> "", Color |-> "", State |-> "", TeamIDs |-> <<>>,
              LeadID |-> ""]>> : n \in OptStr("Apollo 2")}

\* update_project: a string argument becomes a pointer only when it is not
\* empty
SetIfGiven(str) == IF str # "" THEN Ptr(str) ELSE NilPtr

\* the handler of tool up to the return of its client operation: the
\* options or input it builds, and the operation it calls
CallTool(tool, args) ==
    \/ /\ tool = "get_issue"
       /\ GetIssue(args.ID, GetIssueToolOptions(args.IncludeChildren))
    \/ /\ tool = "get_team_issues"
       /\ GetTeamIssues(args.ID, Ptr([First |-> args.First]))
    \/ /\ tool = "get_team_projects"
       /\ GetTeamProjects(args.ID, Ptr([First |-> args.First]))
    \/ /\ tool = "get_issue_children"
       /\ GetIssueChildren(args.ID, Ptr([First |-> args.First]))
    \/ /\ tool = "get_project_issues"
       /\ GetProjectIssues(args.ID, Ptr([First |-> args.First]))
    \/ /\ tool = "get_teams"
       /\ GetTeams
    \/ /\ tool = "create_issue"
       /\ CreateIssue(args)
    \/ /\ tool = "update_issue"
       /\ UpdateIssue(args.IssueID,
                      [Title |-> args.Title, Description |-> args.Description,
                       Priority |-> args.Priority, StateID |-> args.StateID,
                       AssigneeID |-> args.AssigneeID,
                       ProjectID |-> args.ProjectID, ParentID |-> args.ParentID])
    \/ /\ tool = "create_project"
       /\ CreateProject([Name |-> args.Name, Description |-> args.Description,
                         Icon |-> args.Icon, Color |-> args.Color,
                         State |-> args.State, TeamIDs |-> args.TeamIDs,
                         LeadID |-> args.LeadID, StartDate |-> "",
                         TargetDate |-> ""])
    \/ /\ tool = "update_project"
       /\ UpdateProject(args.ProjectID,
                        [Name |-> SetIfGiven(args.Name),
                         Description |-> SetIfGiven(args.Description),
                         Icon |-> SetIfGiven(args.Icon),
                         Color |-> SetIfGiven(args.Color),
                         State |-> SetIfGiven(args.State),
                         TeamIDs |-> args.TeamIDs,
                         LeadID |-> SetIfGiven(args.LeadID),
                         StartDate |-> NilPtr, TargetDate |-> NilPtr])

\* the prefix the handler of the tool that calls op puts before op's error
ToolPrefix(op) ==
    CASE op = "GetIssue" -> "failed to get issue: "
      [] op = "GetTeamIssues" -> "failed to get team issues: "
      [] op = "GetTeamProjects" -> "failed to get team projects: "
      [] op = "GetIssueChildren" -> "failed to get issue children: "
      [] op = "GetProjectIssues" -> "failed to get project issues: "
      [] op = "GetTeams" -> "failed to get teams: "
      [] op = "CreateIssue" -> "failed to create issue: "
      [] op = "UpdateIssue" -> "failed to update issue: "
      [] op = "CreateProject" -> "failed to create project: "
      [] op = "UpdateProject" -> "failed to update project: "

\* mcp_golang.NewToolResponse(NewTextContent(string(jsonData))): the text is
\* the JSON of the record, whose layout is not part of the model.  These
\* records hold strings, numbers, pointers and slices only, so that
\* json.MarshalIndent does not fail on them.
NewToolResponse(rec) == Ptr([type |-> "text", json |-> rec])

\* a variant of the handlers that hands back what the operation returned
\* beside the error
HandlerReturnKeepsRecord(op, res) ==
    IF res.kind = "panic" THEN res
    ELSE IF res.err # NilErr
    THEN Ret(IF res.rec.kind = "nil" THEN NilPtr ELSE NewToolResponse(res.rec),
             Err(ToolPrefix(op) \o res.err.msg))
    ELSE Ret(NewToolResponse(res.rec), NilErr)

\* what the handler returns when its operation op has returned res; a panic
\* of the operation passes through the handler
HandlerReturn(op, res) ==
    IF res.kind = "panic" THEN res
    ELSE IF res.err # NilErr
    THEN Ret(NilPtr, Err(ToolPrefix(op) \o res.err.msg))
    ELSE Ret(NewToolResponse(res.rec), NilErr)

ToolInit ==
    /\ client = Ptr(NewClient("lin_api_XYZ", <<>>))
    /\ newClientArgs = NilPtr
    /\ pc = "idle"
    /\ frame = NoFrame
    /\ inflight = NilPtr
    /\ sent = <<>>
    /\ received = <<>>
    /\ result = NoResult
    /\ calls = <<>>
    /\ pending = {}
    /\ files = InitialFiles
    /\ process = Serving

\* the dispatcher calls the handler of one of the tools
ToolCalled == \E ta \in ToolArguments : CallTool(ta[1], ta[2])

\* the handler returns: the frame keeps what the operation returned (the
\* handler's locals), the result is what the handler hands the dispatcher
ToolReturn ==
    /\ pc = "returned"
    /\ pc' = "replied"
    /\ frame' = [op |-> frame.op, args |-> frame.args, phase |-> frame.phase,
                 issue |-> frame.issue, ret |-> result]
    /\ result' = HandlerReturn(frame.op, result)
    /\ UNCHANGED <<client, newClientArgs, inflight, sent, received, elsewhere>>

\* the dispatcher has sent the reply; the next tool call can come
ToolServed ==
    /\ pc = "replied"
    /\ pc' = "idle"
    /\ frame' = NoFrame
    /\ inflight' = NilPtr
    /\ sent' = <<>>
    /\ received' = <<>>
    /\ result' = NoResult
    /\ UNCHANGED <<client, newClientArgs, elsewhere>>

ToolNext == ToolCalled \/ HTTPDo \/ ToolReturn \/ ToolServed
ToolSpec == ToolInit /\ [][ToolNext]_vars

\* one call of each operation of the client built by main, over all the
\* outcomes of its requests
EachOperation ==
    \/ \E query \in Queries : ExecuteGraphQL(query, NilMap)
    \/ GetViewer
    \/ GetTeams
    \/ GetTeamProjects("team-1", NilPtr)
    \/ GetTeamIssues("team-1", NilPtr)
    \/ \E b \in BOOLEAN : GetIssue("issue-1", GetIssueToolOptions(b))
    \/ \E input \in {i \in CreateIssueInputs : i.Priority = 0} : CreateIssue(input)
    \/ GetIssueChildren("issue-1", NilPtr)
    \/ \E input \in {i \in UpdateIssueInputs : i.Title = NilPtr} :
          UpdateIssue("issue-1", input)
    \/ GetProjects(NilPtr)
    \/ GetProject("project-1")
    \/ \E input \in {i \in CreateProjectInputs : i.TeamIDs = <<>>} :
          CreateProject(input)
    \/ GetProjectIssues("project-1", NilPtr)
    \/ \E input \in {i \in UpdateProjectInputs : i.Name = Ptr("")} :
          UpdateProject("project-1", input)
OperationsNext == EachOperation \/ HTTPDo \/ Return
\* the client's calls when every request that httpCli.Do works on completes
FairSpec == ToolInit /\ [][OperationsNext]_vars /\ WF_vars(HTTPDo)

(***************************************************************************)
(* main.go: main.  It reads LINEAR_API_KEY, builds the client, registers   *)
(* the tools one after the other and serves; log.Fatalf ends the process.  *)
(***************************************************************************)
MainInit ==
    /\ client = NilPtr
    /\ newClientArgs = NilPtr
    /\ pc = "start"
    /\ frame = NoFrame
    /\ inflight = NilPtr
    /\ sent = <<>>
    /\ received = <<>>
    /\ result = NoResult
    /\ calls = <<>>
    /\ pending = {}
    /\ files = InitialFiles
    /\ process \in {[apiKey |-> k, tools |-> <<>>] : k \in {"", "lin_api_XYZ"}}

\* apiKey := os.Getenv("LINEAR_API_KEY"); log.Fatalf when it is empty,
\* client := linear.NewClient(apiKey) otherwise
LoadAPIKey ==
    /\ pc = "start"
    /\ IF process.apiKey = ""
       THEN pc' = "exited" /\ UNCHANGED client
       ELSE /\ client' = Ptr(NewClient(process.apiKey, <<>>))
            /\ pc' = "registering"
    /\ UNCHANGED <<newClientArgs, frame, inflight, sent, received, result,
                   elsewhere>>

\* a variant that goes on to serve when a registration fails
RegisterToolOrServe(ok) ==
    /\ pc = "registering"
    /\ Len(process.tools) < Len(AllTools)
    /\ IF ok
       THEN /\ process' = [process EXCEPT
                             !.tools = Append(@, AllTools[Len(@) + 1])]
            /\ UNCHANGED pc
       ELSE pc' = "idle" /\ UNCHANGED process
    /\ UNCHANGED <<client, newClientArgs, frame, inflight, sent, received,
                   result, calls, pending, files>>

\* err = server.RegisterTool(...) for the next tool; log.Fatalf when it
\* fails
RegisterTool(ok) ==
    /\ pc = "registering"
    /\ Len(process.tools) < Len(AllTools)
    /\ IF ok
       THEN /\ process' = [process EXCEPT
                             !.tools = Append(@, AllTools[Len(@) + 1])]
            /\ UNCHANGED pc
       ELSE pc' = "exited" /\ UNCHANGED process
    /\ UNCHANGED <<client, newClientArgs, frame, inflight, sent, received,
                   result, calls, pending, files>>

\* err = server.Serve() after the last registration; log.Fatalf when it
\* fails
Serve(ok) ==
    /\ pc = "registering"
    /\ process.tools = AllTools
    /\ pc' = IF ok THEN "idle" ELSE "exited"
    /\ UNCHANGED <<client, newClientArgs, frame, inflight, sent, received,
                   result, elsewhere>>

Registration == \E ok \in BOOLEAN : RegisterTool(ok)
ServeStart == \E ok \in BOOLEAN : Serve(ok)
MainNext == LoadAPIKey \/ Registration \/ ServeStart \/ ToolNext
MainSpec == MainInit /\ [][MainNext]_vars

(***************************************************************************)
(* Properties.                                                             *)
(***************************************************************************)
\* a call is in progress or has ended, and its frame is still there
InCall == pc \in {"waiting", "returned", "panicked"}
\* the operations whose options carry a First count
FirstOps == {"GetTeamIssues", "GetIssueChildren", "GetProjects"}
UnpagedOps == {"GetTeamProjects", "GetProjectIssues"}
\* the count the options ask for: First inside 1..100, otherwise the default
RequestedFirst(opts) ==
    IF opts.kind = "ptr" /\ opts.v.First \in 1..100 THEN opts.v.First ELSE 50
\* the "first" variable of the first request the call in progress has sent
SentFirst == Get(sent[1].body.variables, "first")

\* C1: for GetTeamIssues, GetIssueChildren and GetProjects the "first"
\* variable of the request is the supplied First when 1 <= First <= 100 and
\* 50 in every other case (nil options, 0, negative, above 100); a First
\* above 100 is never sent as 100.
C1_FirstClamp ==
    (InCall /\ frame.op \in FirstOps /\ Len(sent) > 0) =>
        /\ SentFirst = JInt(RequestedFirst(frame.args.opts))
        /\ (frame.args.opts.kind = "ptr" /\ frame.args.opts.v.First > 100)
               => SentFirst = JInt(50)

\* GetTeamIssues with First = 500 has sent first = 50
C1_Witness ==
    /\ pc = "waiting"
    /\ frame.op = "GetTeamIssues"
    /\ frame.args.opts = Ptr([First |-> 500])
    /\ Len(sent) = 1
    /\ SentFirst = JInt(50)

\* C2: every list operation that accepts a First option, GetTeamProjects and
\* GetProjectIssues included, sends a "first" variable that is the supplied
\* First when it lies in 1..100 and 50 otherwise.
C2_EveryListOpSendsFirst ==
    (InCall /\ frame.op \in FirstOps \cup UnpagedOps /\ Len(sent) > 0) =>
        SentFirst = JInt(RequestedFirst(frame.args.opts))

\* GetTeamProjects with First = 1 has sent its request without any "first"
C2_Witness ==
    /\ pc = "waiting"
    /\ frame.op = "GetTeamProjects"
    /\ frame.args.opts = Ptr([First |-> 1])
    /\ Len(sent) = 1
    /\ sent[1].body.variables = JObj([teamId |-> JStr("team-1")])

\* the client's URL is one http.NewRequest accepts
ValidURL == client.kind = "ptr" /\ client.v.apiURL # InvalidURL
\* the call has ended (by a return or by a panic)
Ended == pc \in {"returned", "panicked"}
\* the call is GetIssue with IncludeChildren = true
WantsChildren ==
    /\ frame.op = "GetIssue"
    /\ frame.args.opts.kind = "ptr"
    /\ frame.args.opts.v.IncludeChildren
\* the body carries no GraphQL error
NoErrorsIn(body) == Get(body, "errors") \in {Absent, Null, JArr(<<>>)}
\* the round trip gave GetIssue an issue: a decodable body without GraphQL
\* errors whose data.issue is an object
PrimaryFetched(out) ==
    /\ out.kind = "response"
    /\ out.body.kind = "object"
    /\ NoErrorsIn(out.body)
    /\ IsMap(Get(Get(out.body, "data"), "issue"))

\* C3 as stated: with a valid client, every call issues exactly one request,
\* except GetIssue with IncludeChildren = true, which issues exactly two.
C3_Original ==
    (Ended /\ ValidURL) => Len(sent) = IF WantsChildren THEN 2 ELSE 1

\* C3: with a valid client URL every call issues exactly one request, except
\* GetIssue with IncludeChildren = true, which issues a second one exactly
\* when its first fetch yielded an issue; no call issues more than two, a
\* call issues none only when the URL cannot be parsed, and no request is
\* sent outside a call.
C3_RequestCount ==
    /\ Len(sent) <= 2
    /\ Len(received) <= Len(sent)
    /\ ~InCall => Len(sent) = 0
    /\ (InCall /\ ValidURL) => Len(sent) >= 1
    /\ (InCall /\ ~ValidURL) => Len(sent) = 0
    /\ (Ended /\ ValidURL) =>
          Len(sent) = IF WantsChildren /\ PrimaryFetched(received[1])
                      THEN 2 ELSE 1

\* GetIssue with IncludeChildren = true has returned the issue with its
\* children after two requests
C3_Witness ==
    /\ pc = "returned"
    /\ WantsChildren
    /\ Len(sent) = 2
    /\ Len(received) = 2
    /\ result.err = NilErr
    /\ result.rec.v.Children.kind = "slice"

MutationOps == {"CreateIssue", "UpdateIssue", "CreateProject", "UpdateProject"}
\* the key of "data" under which the mutation op answers
ContainerOf(op) ==
    CASE op = "CreateIssue" -> "issueCreate"
      [] op = "UpdateIssue" -> "issueUpdate"
      [] op = "CreateProject" -> "projectCreate"
      [] op = "UpdateProject" -> "projectUpdate"
\* the message of the error for an unsuccessful mutation
NotSuccessful(op) ==
    CASE op = "CreateIssue" -> "issue creation was not successful"
      [] op = "UpdateIssue" -> "issue update was not successful"
      [] op = "CreateProject" -> "project creation was not successful"
      [] op = "UpdateProject" -> "project update was not successful"
\* the mutation's answer in the (only) response of the call
MutationAnswer == Get(Get(received[1].body, "data"), ContainerOf(frame.op))
\* a mutation has ended on a response
MutationAnswered ==
    /\ Ended
    /\ frame.op \in MutationOps
    /\ Len(received) = 1
    /\ received[1].kind = "response"

\* C4: CreateIssue, UpdateIssue, CreateProject and UpdateProject return an
\* error and a nil record whenever the response's "success" is false, absent
\* or not a boolean, whether or not the issue/project object is present; when
\* the response is otherwise well formed the error is the operation's "was
\* not successful" error.
C4_UnsuccessfulMutation ==
    (MutationAnswered /\ Get(MutationAnswer, "success") # JBool(TRUE)) =>
        /\ result.kind = "return"
        /\ result.rec = NilPtr
        /\ result.err # NilErr
        /\ (IsMap(MutationAnswer) /\ NoErrorsIn(received[1].body))
              => result.err = Err(NotSuccessful(frame.op))

\* CreateIssue has returned the error for a response with "success": false
\* that also carries a complete issue object
C4_Witness ==
    /\ MutationAnswered
    /\ frame.op = "CreateIssue"
    /\ Get(MutationAnswer, "success") = JBool(FALSE)
    /\ Get(MutationAnswer, "issue") = FullIssue
    /\ result = Ret(NilPtr, Err("issue creation was not successful"))

ListOps == {"GetTeams", "GetTeamIssues", "GetIssueChildren", "GetProjects",
            "GetTeamProjects", "GetProjectIssues"}
\* the connection object (the holder of "nodes") in the "data" of op's response
ConnectionOf(op, data) ==
    CASE op = "GetTeams" -> Get(data, "teams")
      [] op = "GetTeamIssues" -> Get(Get(data, "team"), "issues")
      [] op = "GetIssueChildren" -> Get(Get(data, "issue"), "children")
      [] op = "GetProjects" -> Get(data, "projects")
      [] op = "GetTeamProjects" -> Get(Get(data, "team"), "projects")
      [] op = "GetProjectIssues" -> Get(Get(data, "project"), "issues")
\* a list fetch has ended on a response whose connection has no "nodes" key
NodesAbsent ==
    /\ Ended
    /\ frame.op \in ListOps
    /\ Len(received) = 1
    /\ received[1].kind = "response"
    /\ LET c == ConnectionOf(frame.op, Get(received[1].body, "data"))
       IN  IsMap(c) /\ Get(c, "nodes") = Absent

\* C5: every list fetch (GetTeams, GetTeamIssues, GetIssueChildren,
\* GetProjects, GetTeamProjects, GetProjectIssues) returns an error and a nil
\* result for a response whose "nodes" key is absent; it never returns
\* success.
C5_NodesAbsentIsError ==
    NodesAbsent =>
        /\ result.kind = "return"
        /\ result.err # NilErr
        /\ result.rec.kind = "nil"

\* GetProjectIssues has returned success, with a project that has no issues,
\* for a response whose "issues" object has no "nodes"
C5_Witness ==
    /\ NodesAbsent
    /\ frame.op = "GetProjectIssues"
    /\ result.err = NilErr
    /\ result.rec.kind = "ptr"
    /\ result.rec.v.Issues = NilSlice

\* the call in progress is a direct call of ExecuteGraphQL that has ended on a
\* response
ExecuteAnswered ==
    /\ Ended
    /\ frame.op = "ExecuteGraphQL"
    /\ Len(received) = 1
    /\ received[1].kind = "response"
\* the elements of the body's "errors" array
ErrorElems(body) == Get(body, "errors").elems
\* the body is a GraphQL response that json decodes: an object whose "data"
\* is an object (or missing) and whose "errors" is an array of error objects
\* (or missing)
Decodable(body) ==
    /\ body.kind \in {"object", "null"}
    /\ Get(body, "data").kind \in {"absent", "null", "object"}
    /\ Get(body, "errors").kind \in {"absent", "null", "array"}
    /\ IsArr(Get(body, "errors")) =>
          \A i \in 1..Len(ErrorElems(body)) :
             /\ ErrorElems(body)[i].kind \in {"object", "null"}
             /\ Get(ErrorElems(body)[i], "message").kind
                    \in {"string", "absent", "null"}
\* the body decodes and carries at least one GraphQL error
CarriesErrors(body) ==
    Decodable(body) /\ IsArr(Get(body, "errors")) /\ Len(ErrorElems(body)) > 0
\* the messages of the body's errors, in response order
MessagesOf(body) ==
    [i \in 1..Len(ErrorElems(body)) |->
        LET m == Get(ErrorElems(body)[i], "message")
        IN  IF m.kind = "string" THEN m.s ELSE ""]
\* the "data" of the body as the decoded response holds it
DataOf(body) == IF IsMap(Get(body, "data")) THEN Get(body, "data") ELSE NilMap
RECURSIVE Semicolons(_, _)
\* the first n of msgs with "; " between them
Semicolons(msgs, n) ==
    IF n = 0 THEN ""
    ELSE IF n = 1 THEN msgs[1]
    ELSE Semicolons(msgs, n - 1) \o "; " \o msgs[n]
\* the error ExecuteGraphQL makes of the GraphQL errors of the body
GraphQLErrorOf(body) ==
    Err("GraphQL errors: "
        \o Semicolons(MessagesOf(body), Len(ErrorElems(body))))

\* C6: when the decoded body carries one or more GraphQL errors,
\* ExecuteGraphQL returns a non-nil response holding the decoded data and the
\* error list unchanged, together with an error whose message is all the
\* error messages, in response order, joined by "; ".
C6_PartialResponseWithErrors ==
    (ExecuteAnswered /\ CarriesErrors(received[1].body)) =>
        /\ result.kind = "return"
        /\ result.rec = Ptr([Data |-> DataOf(received[1].body),
                             Errors |-> MessagesOf(received[1].body)])
        /\ result.err = GraphQLErrorOf(received[1].body)

\* ExecuteGraphQL has returned data and two errors, joined in order
C6_Witness ==
    /\ ExecuteAnswered
    /\ received[1].body =
          Body(FullViewer, ErrorsJSON(<<"not found", "Test GraphQL error">>))
    /\ result.rec.kind = "ptr"
    /\ result.rec.v.Data = FullViewer
    /\ result.rec.v.Errors = <<"not found", "Test GraphQL error">>
    /\ result.err.msg = "GraphQL errors: not found; Test GraphQL error"

\* a typed operation has ended, and the response to its first request
\* carried GraphQL errors
TypedAnsweredWithErrors ==
    /\ Ended
    /\ frame.op \in {"GetViewer", "GetTeams", "GetIssue"} \cup ListOps
                      \cup MutationOps \cup {"GetProject"}
    /\ Len(received) >= 1
    /\ received[1].kind = "response"
    /\ CarriesErrors(received[1].body)

\* C7: when the response carries GraphQL errors, every typed operation
\* (GetViewer, GetTeams, the first fetch of GetIssue, the list fetches, the
\* mutations) returns a nil record and the error that holds the server's
\* messages, even if the response also carries usable data, and sends
\* nothing more.
C7_ErrorsDiscardData ==
    TypedAnsweredWithErrors =>
        /\ result.kind = "return"
        /\ result.rec.kind = "nil"
        /\ result.err = GraphQLErrorOf(received[1].body)
        /\ Len(sent) = 1
        /\ Len(received) = 1

\* GetIssue has returned nil and the server's message for a response that
\* carried a complete issue next to the error
C7_Witness ==
    /\ TypedAnsweredWithErrors
    /\ frame.op = "GetIssue"
    /\ received[1].body = Body(FullIssueData, ErrorsJSON(<<"not found">>))
    /\ result = Ret(NilPtr, Err("GraphQL errors: not found"))

\* a direct call of ExecuteGraphQL has ended
ExecuteEnded == Ended /\ frame.op = "ExecuteGraphQL"
\* ExecuteGraphQL returned no response and an error whose message starts
\* with prefix
FailedWith(prefix) ==
    /\ result.kind = "return"
    /\ result.rec = NilPtr
    /\ result.err # NilErr
    /\ HasPrefix(result.err.msg, prefix)

\* C8: ExecuteGraphQL returns a nil response and an error when the HTTP call
\* cannot be made or the body does not decode; an undecodable body under a
\* status other than 200 gives the error that names the HTTP status, an
\* undecodable body under status 200 gives the decode failure.
C8_TransportFailures ==
    /\ (ExecuteEnded /\ Len(sent) = 0) => FailedWith("failed to create request: ")
    /\ (ExecuteEnded /\ Len(received) = 1 /\ received[1].kind = "fail")
          => FailedWith("failed to make request: ")
    /\ (ExecuteAnswered /\ ~Decodable(received[1].body)
           /\ received[1].status # 200)
          => /\ FailedWith("received non-OK response: ")
             /\ received[1].status = 500 =>
                   result.err.msg
                     = "received non-OK response: 500 Internal Server Error"
    /\ (ExecuteAnswered /\ ~Decodable(received[1].body)
           /\ received[1].status = 200)
          => FailedWith("failed to decode response: ")

\* ExecuteGraphQL has returned the status error for an undecodable body
\* under status 500
C8_Witness ==
    /\ ExecuteAnswered
    /\ received[1] = Http(500, NotJSON)
    /\ result = Ret(NilPtr,
                    Err("received non-OK response: 500 Internal Server Error"))

\* the entries of a variables map (a nil map has none)
EntriesOf(variables) == IF MapLen(variables) = 0 THEN JObj(<<>>) ELSE variables
\* the entries of the "variables" of a request body (left out when empty)
VariablesIn(body) == IF body.variables = Absent THEN JObj(<<>>) ELSE body.variables

\* C9: every request sent is an HTTP POST to the client's configured URL
\* whose headers are Content-Type: application/json and Authorization: the
\* raw API key given to NewClient, nothing added; the body of a request made
\* by ExecuteGraphQL(query, variables) carries that query and the entries of
\* those variables.
C9_RequestShape ==
    /\ \A i \in 1..Len(sent) :
          /\ sent[i].method = "POST"
          /\ sent[i].url = client.v.apiURL
          /\ DOMAIN sent[i].header = {"Content-Type", "Authorization"}
          /\ sent[i].header["Content-Type"] = "application/json"
          /\ sent[i].header["Authorization"] = client.v.apiKey
          /\ client.v.apiKey \in APIKeys
    /\ (frame.op = "ExecuteGraphQL" /\ Len(sent) > 0) =>
          /\ sent[1].body.query = frame.args.query
          /\ VariablesIn(sent[1].body) = EntriesOf(frame.args.variables)
    /\ inflight.kind = "ptr" => inflight.v = sent[Len(sent)]

\* ExecuteGraphQL with two variables is waiting for the answer to its POST
\* to the custom URL
C9_Witness ==
    /\ pc = "waiting"
    /\ frame.op = "ExecuteGraphQL"
    /\ client.v = [apiKey |-> "test_api_key", apiURL |-> CustomURL,
                   httpCli |-> DefaultClient]
    /\ sent = <<[method |-> "POST",
                 url |-> CustomURL,
                 header |-> ("Content-Type" :> "application/json"
                             @@ "Authorization" :> "test_api_key"),
                 body |-> [query |-> "query {}",
                           variables |-> JObj([id |-> JStr("issue-1"),
                                               first |-> JInt(5)])]]>>

\* the positions in opts of the options of one kind
Positions(opts, kind) == {i \in 1..Len(opts) : opts[i].option = kind}
\* the greatest of a nonempty set of positions
LastOf(S) == CHOOSE i \in S : \A j \in S : j <= i

\* C10: NewClient(apiKey, opts...) yields a client whose apiKey is the
\* argument whatever the options are, whose URL is that of the last WithURL
\* option and DefaultAPIURL when there is none, and whose HTTP client is that
\* of the last WithHTTPClient option and the (non-nil) default client when
\* there is none.
C10_NewClient ==
    pc = "constructed" =>
        LET a == newClientArgs.v
            urls == Positions(a.opts, "WithURL")
            clis == Positions(a.opts, "WithHTTPClient")
        IN  /\ client.kind = "ptr"
            /\ client.v.apiKey = a.apiKey
            /\ client.v.apiURL = IF urls = {}
                                 THEN "https://api.linear.app/graphql"
                                 ELSE a.opts[LastOf(urls)].url
            /\ client.v.httpCli = IF clis = {}
                                  THEN "http.DefaultClient"
                                  ELSE a.opts[LastOf(clis)].httpCli

\* NewClient with two WithURL options has taken the URL of the second
C10_Witness ==
    /\ pc = "constructed"
    /\ newClientArgs.v.opts = <<WithURL(InvalidURL), WithURL(CustomURL)>>
    /\ client.v = [apiKey |-> newClientArgs.v.apiKey,
                   apiURL |-> CustomURL,
                   httpCli |-> "http.DefaultClient"]

TypedOps == {"GetViewer", "GetTeams", "GetIssue", "GetProject"} \cup ListOps
               \cup MutationOps
\* the object of "data" whose scalar fields op maps into its record (for a
\* list operation: the connection that holds the nodes)
EntityOf(op, data) ==
    CASE op = "GetViewer" -> Get(data, "viewer")
      [] op = "GetIssue" -> Get(data, "issue")
      [] op = "GetProject" -> Get(data, "project")
      [] op \in {"CreateIssue", "UpdateIssue"} ->
            Get(Get(data, ContainerOf(op)), "issue")
      [] op \in {"CreateProject", "UpdateProject"} ->
            Get(Get(data, ContainerOf(op)), "project")
      [] op \in ListOps -> ConnectionOf(op, data)
\* the response has every container, array and object op asks for, so that
\* only scalar fields and optional sub-objects can be off
ShapeOK(op, data) ==
    /\ IsMap(EntityOf(op, data))
    /\ op \in MutationOps => Get(Get(data, ContainerOf(op)), "success") = JBool(TRUE)
    /\ op \in ListOps =>
          /\ IsArr(Get(EntityOf(op, data), "nodes"))
          /\ \A i \in 1..Len(Get(EntityOf(op, data), "nodes").elems) :
                IsMap(Get(EntityOf(op, data), "nodes").elems[i])
\* a typed operation has ended on a first response that decodes, carries no
\* GraphQL error and has the shape the operation asks for
WellShaped ==
    /\ Ended
    /\ frame.op \in TypedOps
    /\ Len(received) >= 1
    /\ received[1].kind = "response"
    /\ Decodable(received[1].body)
    /\ NoErrorsIn(received[1].body)
    /\ ShapeOK(frame.op, Get(received[1].body, "data"))
\* the string a defensive mapper makes of a decoded value
StringOrZero(v) == IF v.kind = "string" THEN v.s ELSE ""

\* C11: in every mapper, GetViewer and GetTeams included, a scalar field
\* that is present with the wrong type, null or absent maps to the zero
\* value of its type, and the call completes without an error and without
\* aborting.
C11_ScalarsDefensive ==
    (WellShaped /\ Len(received) = 1) =>
        /\ pc = "returned"
        /\ result.err = NilErr
        /\ frame.op = "GetViewer" =>
              result.rec.v.ID
                = StringOrZero(Get(EntityOf("GetViewer",
                                            Get(received[1].body, "data")), "id"))

\* GetViewer has aborted on a viewer whose id is a number
C11_Witness ==
    /\ pc = "panicked"
    /\ frame.op = "GetViewer"
    /\ WellShaped
    /\ Get(Get(Get(received[1].body, "data"), "viewer"), "id") = JNum(10)
    /\ result.kind = "panic"

\* the operations that return one record
EntityOps == {"GetIssue", "GetProject", "GetProjectIssues"} \cup MutationOps
IssueEntityOps == {"GetIssue", "CreateIssue", "UpdateIssue"}
ProjectEntityOps == {"GetProject", "CreateProject", "UpdateProject"}
\* the optional sub-objects of op's payload with the association of the
\* record each one belongs to
AssocsOf(op) ==
    CASE op \in IssueEntityOps ->
            {<<"state", "State">>, <<"assignee", "Assignee">>,
             <<"parent", "Parent">>, <<"project", "Project">>}
      [] op \in ProjectEntityOps ->
            {<<"lead", "Lead">>, <<"status", "Status">>, <<"teams", "Teams">>}
      [] op = "GetProjectIssues" -> {<<"status", "Status">>}
\* the payload of the (only) response of the call
Payload ==
    IF frame.op = "GetProjectIssues"
    THEN Get(Get(received[1].body, "data"), "project")
    ELSE EntityOf(frame.op, Get(received[1].body, "data"))
\* a one-record operation has ended on its only response, which was well
\* shaped
EntityAnswered == WellShaped /\ Len(received) = 1 /\ frame.op \in EntityOps

IsConnection(v) == IsMap(v) /\ IsArr(Get(v, "nodes"))

\* C13: a payload that contains all optional sub-objects of the record type
\* gives a record with every association populated: GetIssue on state,
\* assignee, project and parent sets State, Assignee, Project and Parent;
\* GetProject on status, lead, teams and issues sets Status, Lead, Teams and
\* Issues.
C13_FullPayloadFullRecord ==
    /\ (EntityAnswered /\ frame.op = "GetIssue"
           /\ \A k \in {"state", "assignee", "project", "parent"} :
                 IsMap(Get(Payload, k)))
          => /\ result.err = NilErr
             /\ \A f \in {"State", "Assignee", "Project", "Parent"} :
                   result.rec.v[f].kind = "ptr"
    /\ (EntityAnswered /\ frame.op = "GetProject"
           /\ IsMap(Get(Payload, "status")) /\ IsMap(Get(Payload, "lead"))
           /\ IsConnection(Get(Payload, "teams"))
           /\ IsConnection(Get(Payload, "issues")))
          => /\ result.err = NilErr
             /\ result.rec.v.Status.kind = "ptr"
             /\ result.rec.v.Lead.kind = "ptr"
             /\ result.rec.v.Teams.kind = "slice"
             /\ result.rec.v.Issues.kind = "slice"

\* GetProject has returned a project with Lead and Teams but without Issues
\* and Status for the payload that carries all four
C13_Witness ==
    /\ EntityAnswered
    /\ frame.op = "GetProject"
    /\ Payload = FullProject
    /\ result.err = NilErr
    /\ result.rec.v.Lead.kind = "ptr"
    /\ result.rec.v.Teams.kind = "slice"
    /\ result.rec.v.Issues = NilSlice
    /\ result.rec.v.Status = NilPtr

\* the children count GetIssue asks for
ChildrenFirstOf(opts) ==
    IF opts.v.ChildrenFirst \in 1..100 THEN opts.v.ChildrenFirst ELSE 50
\* the nodes of the children connection in the body
ChildNodes(body) ==
    Get(Get(Get(Get(body, "data"), "issue"), "children"), "nodes").elems

\* C14: GetIssue with IncludeChildren = true fetches the issue first and the
\* children only after that fetch succeeded, asking for 50 children unless
\* ChildrenFirst is in 1..100 (so always 50 from the get_issue tool, which
\* never sets ChildrenFirst), and returns the fetched children in Children;
\* with IncludeChildren = false or nil options there is no second request
\* and Children stays empty.
C14_ChildrenFetch ==
    (InCall /\ frame.op = "GetIssue") =>
        /\ Len(sent) >= 1 =>
              sent[1].body = [query |-> "graphql/get_issue.graphql",
                              variables |-> JObj([id |-> JStr(frame.args.issueID)])]
        /\ Len(sent) = 2 =>
              /\ WantsChildren
              /\ Len(received) >= 1
              /\ PrimaryFetched(received[1])
              /\ sent[2].body =
                    [query |-> "graphql/get_issue_children.graphql",
                     variables |->
                        JObj([id |-> JStr(frame.args.issueID),
                              first |-> JInt(ChildrenFirstOf(frame.args.opts))])]
              /\ frame.args.opts = GetIssueToolOptions(TRUE) =>
                    Get(sent[2].body.variables, "first") = JInt(50)
        /\ (Ended /\ ValidURL /\ WantsChildren /\ PrimaryFetched(received[1]))
              => Len(sent) = 2 /\ Len(received) = 2
        /\ (Ended /\ ~WantsChildren) =>
              /\ Len(sent) <= 1
              /\ result.err = NilErr => result.rec.v.Children = NilSlice
        /\ (Ended /\ WantsChildren /\ result.err = NilErr) =>
              /\ Len(received) = 2
              /\ result.rec.v.ID
                    = StringOrZero(Get(Get(Get(received[1].body, "data"),
                                           "issue"), "id"))
              /\ result.rec.v.Children.kind = "slice"
              /\ Len(result.rec.v.Children.elems)
                    = Len(ChildNodes(received[2].body))
              /\ \A i \in 1..Len(ChildNodes(received[2].body)) :
                    result.rec.v.Children.elems[i].ID
                      = StringOrZero(Get(ChildNodes(received[2].body)[i], "id"))

\* GetIssue with ChildrenFirst = 7 has returned the issue with the one child
\* of the second response, having asked for 7
C14_Witness ==
    /\ pc = "returned"
    /\ frame.op = "GetIssue"
    /\ frame.args.opts = Ptr([IncludeChildren |-> TRUE, ChildrenFirst |-> 7])
    /\ Len(sent) = 2
    /\ Get(sent[2].body.variables, "first") = JInt(7)
    /\ result.err = NilErr
    /\ Len(result.rec.v.Children.elems) = 1
    /\ result.rec.v.Children.elems[1].ID = "issue-1"

\* C15: no typed operation returns a non-nil record together with an error:
\* whenever it returns an error its record is nil, also when the children
\* fetch of GetIssue fails.
C15_ErrorMeansNoRecord ==
    (Ended /\ frame.op \in TypedOps /\ result.kind = "return"
       /\ result.err # NilErr)
        => result.rec.kind = "nil"

\* GetIssue has returned the issue of its first fetch together with the
\* error of the failed children fetch
C15_Witness ==
    /\ pc = "returned"
    /\ frame.op = "GetIssue"
    /\ Len(sent) = 2
    /\ received[2] = TransportFailure
    /\ result.rec.kind = "ptr"
    /\ result.rec.v.ID = "issue-1"
    /\ result.rec.v.Children = NilSlice
    /\ HasPrefix(result.err.msg, "failed to load children: failed to make request: ")

\* the operation whose mapper reads the i-th response of the call
MapperOf(i) == IF frame.op = "GetIssue" /\ i = 2 THEN "GetIssueChildren" ELSE frame.op
\* the i-th request of the call failed: it could not be sent, its body does
\* not decode, it carries GraphQL errors, or its payload is malformed or
\* unsuccessful
RequestFailed(i) ==
    \/ received[i].kind = "fail"
    \/ ~Decodable(received[i].body)
    \/ CarriesErrors(received[i].body)
    \/ ~ShapeOK(MapperOf(i), Get(received[i].body, "data"))

\* C16: no request is retried: after a request of an operation fails (send
\* failure, undecodable body, GraphQL errors) or returns a malformed or
\* unsuccessful payload, the operation sends nothing more and returns an
\* error to its caller.
C16_NoRetry ==
    (InCall /\ frame.op \in TypedOps) =>
        \A i \in 1..Len(received) :
            RequestFailed(i) =>
                /\ Len(sent) = i
                /\ Ended
                /\ result.kind = "return"
                /\ result.err # NilErr

\* GetProjectIssues has returned success after a response whose "nodes" is
\* not an array
C16_Witness ==
    /\ pc = "returned"
    /\ frame.op = "GetProjectIssues"
    /\ Len(sent) = 1
    /\ received[1].kind = "response"
    /\ RequestFailed(1)
    /\ Get(Get(Get(Get(received[1].body, "data"), "project"), "issues"),
           "nodes") = JStr("oops")
    /\ result.err = NilErr

\* the calls that have started
StartedCalls == {id \in DOMAIN calls : "frame" \in DOMAIN calls[id]}
\* the calls that have returned to their handler
ReturnedCalls == {id \in DOMAIN calls : calls[id].pc = "returned"}
\* calls a and b are the same operation with the same arguments
SameCall(a, b) ==
    /\ calls[a].frame.op = calls[b].frame.op
    /\ calls[a].frame.args = calls[b].frame.args
\* the body of the first request a call of op with args sends
FirstBodyOf(op, args) ==
    CASE op = "GetTeams" -> [query |-> GetTeamsQuery, variables |-> Absent]
      [] op = "GetTeamIssues" ->
            [query |-> "graphql/get_team_issues.graphql",
             variables |-> JObj([teamId |-> JStr(args.teamID),
                                 first |-> JInt(RequestedFirst(args.opts))])]
      [] op = "GetIssue" ->
            [query |-> "graphql/get_issue.graphql",
             variables |-> JObj([id |-> JStr(args.issueID)])]
\* every response the call got decodes, carries no GraphQL error and has
\* the shape its mapper asks for
AllAnswersGood(call) ==
    /\ Len(call.received) = Len(call.sent)
    /\ \A i \in 1..Len(call.received) :
          /\ call.received[i].kind = "response"
          /\ Decodable(call.received[i].body)
          /\ NoErrorsIn(call.received[i].body)
          /\ ShapeOK(IF call.frame.op = "GetIssue" /\ i = 2
                     THEN "GetIssueChildren" ELSE call.frame.op,
                     Get(call.received[i].body, "data"))
\* what stays the same, and what each call owns, in every state
CallsAreIndependent ==
    /\ \A id \in StartedCalls :
          Len(calls[id].sent) >= 1 =>
             /\ calls[id].sent[1].body
                   = FirstBodyOf(calls[id].frame.op, calls[id].frame.args)
             /\ calls[id].sent[1].url = client.v.apiURL
             /\ calls[id].sent[1].header["Authorization"] = client.v.apiKey
    /\ \A a \in ReturnedCalls, b \in ReturnedCalls :
          (SameCall(a, b) /\ calls[a].received = calls[b].received)
             => /\ calls[a].result = calls[b].result
                /\ calls[a].sent = calls[b].sent
    /\ \A a \in StartedCalls, b \in StartedCalls :
          (a \in calls[b].after /\ SameCall(a, b) /\ calls[b].pc # "aborted")
             => /\ Len(calls[b].sent) >= 1
                /\ (calls[b].pc = "returned" /\ calls[b].received[1].kind = "fail")
                      => calls[b].result.err # NilErr
                /\ (calls[b].pc = "returned" /\ AllAnswersGood(calls[b]))
                      => calls[b].result.err = NilErr

\* C17: the client is stateless between calls: no call changes the client's
\* apiKey, apiURL or HTTP client; nothing is cached, so a call repeated
\* after an earlier one has ended sends its own new request; and the result
\* of a call is determined by its own arguments and the responses to its own
\* requests: equal calls with equal responses give equal results, and a
\* repeated call fails or succeeds with its own response, whatever the
\* earlier call got.
C17_Stateless ==
    /\ [][client' = client]_vars
    /\ []CallsAreIndependent

\* call 2 repeats call 1 (GetTeamIssues) after call 1 has returned a list:
\* it has sent a request of its own and returned the failure of that request
C17_Witness ==
    /\ calls[1].pc = "returned"
    /\ calls[1].frame.op = "GetTeamIssues"
    /\ calls[1].result.err = NilErr
    /\ calls[2].pc = "returned"
    /\ calls[2].after = {1}
    /\ SameCall(1, 2)
    /\ Len(calls[2].sent) = 1
    /\ calls[2].received = <<TransportFailure>>
    /\ calls[2].result.err # NilErr
    /\ calls[2].result.rec.kind = "nil"

\* the top-level key of the data that answers a query of op
TopKey(op) ==
    CASE op = "GetTeams" -> "teams"
      [] op = "GetTeamIssues" -> "team"
      [] op = "GetIssue" -> "issue"
\* the first response of the call decodes, carries no GraphQL error and
\* holds an issue object
FirstAnswerGood(call) ==
    /\ Len(call.received) >= 1
    /\ call.received[1].kind = "response"
    /\ Decodable(call.received[1].body)
    /\ NoErrorsIn(call.received[1].body)
    /\ ShapeOK(call.frame.op, Get(call.received[1].body, "data"))
\* the requests of call c are the ones a sequential run of the same
\* operation sends for the same arguments and responses
OwnRequests(c) ==
    /\ Len(c.sent) <= 2
    /\ Len(c.sent) >= 1 => c.sent[1].body = FirstBodyOf(c.frame.op, c.frame.args)
    /\ Len(c.sent) = 2 <=> /\ c.frame.op = "GetIssue"
                           /\ GetIssueWantsChildren(c.frame.args.opts)
                           /\ FirstAnswerGood(c)
    /\ Len(c.sent) = 2 =>
          /\ c.sent[2].body.query = "graphql/get_issue_children.graphql"
          /\ Get(c.sent[2].body.variables, "id") = JStr(c.frame.args.issueID)
\* every response call c got answers a query of its own operation
OwnResponses(c) ==
    \A i \in 1..Len(c.received) :
       (c.received[i].kind = "response"
          /\ IsMap(Get(c.received[i].body, "data")))
         => DOMAIN Get(c.received[i].body, "data").fields = {TopKey(c.frame.op)}
\* the result of the returned call c is the one its own responses give
OwnResult(c) ==
    /\ (\E i \in 1..Len(c.received) : c.received[i].kind = "fail")
          => c.result.err # NilErr
    /\ (\E i \in 1..Len(c.received) :
            c.received[i].kind = "response" /\ ~NoErrorsIn(c.received[i].body))
          => c.result.err # NilErr
    /\ AllAnswersGood(c) =>
          /\ c.result.err = NilErr
          /\ c.frame.op = "GetIssue" =>
                c.result.rec.v.ID
                  = StringOrZero(Get(Get(Get(c.received[1].body, "data"),
                                         "issue"), "id"))
          /\ c.frame.op \in {"GetTeams", "GetTeamIssues"} =>
                Len(c.result.rec.elems)
                  = Len(Get(ConnectionOf(c.frame.op,
                                         Get(c.received[1].body, "data")),
                            "nodes").elems)
\* no call sees a request, a response or a result of another call
CallsIsolated ==
    /\ \A p \in pending :
          /\ calls[p.id].pc = "waiting"
          /\ p.req = calls[p.id].sent[Len(calls[p.id].sent)]
    /\ \A id \in StartedCalls :
          /\ calls[id].pc = "waiting" =>
                /\ Cardinality({p \in pending : p.id = id}) = 1
                /\ Len(calls[id].sent) = Len(calls[id].received) + 1
          /\ OwnRequests(calls[id])
          /\ OwnResponses(calls[id])
          /\ calls[id].pc = "returned" => OwnResult(calls[id])
\* a call was cut off before its result
SomeCallAborted == \E id \in DOMAIN calls : calls[id].pc = "aborted"

\* C18: when several operations run concurrently on one Client, under every
\* interleaving each call gets the record or error derived from the
\* response to its own request: no call sees another call's query,
\* variables, response or error, the requests sent are the ones the calls
\* send when run one after the other, and no call is left without its
\* record or error.
C18_EachCallOwnAnswer == CallsIsolated /\ ~SomeCallAborted

\* two overlapping calls, GetTeams and GetIssue, each returned the result of
\* its own response: the teams call failed on its transport, the issue call
\* returned the issue of its response
C18_Witness ==
    /\ calls[1].pc = "returned" /\ calls[2].pc = "returned"
    /\ calls[1].after = {} /\ calls[2].after = {}
    /\ calls[1].frame.op = "GetTeams" /\ calls[2].frame.op = "GetIssue"
    /\ calls[1].received = <<TransportFailure>>
    /\ calls[1].result.err # NilErr
    /\ AllAnswersGood(calls[2])
    /\ calls[2].result.err = NilErr
    /\ calls[2].result.rec.v.ID = "issue-1"

\* GetTeams panicked on the response to its request while a GetIssue call
\* was waiting for its own response, and the GetIssue call was cut off
C18_Aborted ==
    /\ calls[1].pc = "panicked"
    /\ calls[1].frame.op = "GetTeams"
    /\ calls[2].pc = "aborted"
    /\ 2 \in StartedCalls
    /\ calls[2].frame.op = "GetIssue"
    /\ Len(calls[2].sent) = 1
    /\ calls[2].received = <<>>

\* the last call of download_attachment had a URL outside the uploads host
RejectedDownload ==
    /\ frame.op = "download_attachment"
    /\ ~HasPrefix(frame.args.URL, "https://uploads.linear.app/")

\* C19: download_attachment rejects every URL that does not start with
\* "https://uploads.linear.app/": the call returns an error and no
\* response, it sends no HTTP request, so the API key goes nowhere, and it
\* creates or changes no file.
C19_RejectsOtherURLs ==
    /\ [](RejectedDownload =>
             /\ pc = "returned"
             /\ result = Ret(NilPtr, Err("invalid URL: must be from uploads.linear.app domain"))
             /\ sent = <<>>
             /\ inflight = NilPtr)
    /\ [][RejectedDownload' => files' = files]_vars

\* after a download that wrote a file, a call with a URL on a host that
\* only begins like the uploads host was rejected
C19_Witness ==
    /\ RejectedDownload
    /\ frame.args.URL = "https://uploads.linear.app.evil.example/a.png"
    /\ frame.args.FilePath = "/home/u/notes.txt"
    /\ pc = "returned"
    /\ result.err # NilErr
    /\ files["/tmp/a.png"] = File("PNG")
    /\ files["/home/u/notes.txt"] = File("notes")

\* the "nodes" of the connection in the (only) response of a list fetch
NodesOf == Get(ConnectionOf(frame.op, Get(received[1].body, "data")), "nodes")
\* a list fetch has ended on a response whose "nodes" is an array
ListAnswered ==
    /\ Ended
    /\ frame.op \in ListOps
    /\ Len(received) = 1
    /\ received[1].kind = "response"
    /\ IsArr(NodesOf)
\* some element of "nodes" is not an object
HasNonObject == \E i \in 1..Len(NodesOf.elems) : ~IsMap(NodesOf.elems[i])
\* the records of the list a list fetch returned
ReturnedList ==
    LET l == IF frame.op = "GetProjectIssues" THEN result.rec.v.Issues
             ELSE result.rec
    IN  IF l.kind = "slice" THEN l.elems ELSE <<>>
\* the list fetch returned a list without an error
ListReturned == result.kind = "return" /\ result.err = NilErr

\* C20: for every list operation, an element of "nodes" that is not an
\* object aborts the whole call with an error and a nil result; no list
\* that leaves out elements of "nodes" is returned: a successful result has
\* exactly one record per element of "nodes", in the same order.
C20_NoPartialList ==
    ListAnswered =>
       /\ HasNonObject =>
             /\ result.kind = "return"
             /\ result.err # NilErr
             /\ result.rec.kind = "nil"
       /\ ListReturned =>
             /\ Len(ReturnedList) = Len(NodesOf.elems)
             /\ \A i \in 1..Len(ReturnedList) :
                   ReturnedList[i].ID = StringOrZero(Get(NodesOf.elems[i], "id"))

\* GetProjectIssues returned a project without an error whose Issues is
\* the one record of the second of two nodes: the first node, a string, was
\* skipped
C20_Witness ==
    /\ ListAnswered
    /\ frame.op = "GetProjectIssues"
    /\ Len(NodesOf.elems) = 2
    /\ NodesOf.elems[1] = JStr("oops")
    /\ IsMap(NodesOf.elems[2])
    /\ ListReturned
    /\ Len(ReturnedList) = 1
    /\ ReturnedList[1].ID = "issue-1"

\* the list fetches other than GetProjectIssues and GetTeams keep to C20
C20_OtherListOps ==
    frame.op \notin {"GetProjectIssues", "GetTeams"} => C20_NoPartialList

\* the (only) response of the ended call has a status other than 200 and a
\* body that decodes and carries no GraphQL error
NonOKButDecodable ==
    /\ Ended
    /\ Len(received) = 1
    /\ received[1].kind = "response"
    /\ received[1].status # 200
    /\ Decodable(received[1].body)
    /\ NoErrorsIn(received[1].body)
\* the successful return of ExecuteGraphQL for a decoded body without errors
SuccessOf(body) ==
    [resp |-> Ptr([Data |-> DataOf(body), Errors |-> <<>>]), err |-> NilErr]

\* C21: ExecuteGraphQL reports an HTTP status error only when the body does
\* not decode: a response with a status other than 200 whose body decodes
\* and has no errors list is returned as a success (non-nil response, nil
\* error), and a typed operation then fails or succeeds on the shape of
\* "data" alone, as it does for the same body under status 200.
C21_StatusOnlyWhenUndecodable ==
    /\ (NonOKButDecodable /\ frame.op = "ExecuteGraphQL") =>
          result = Ret(SuccessOf(received[1].body).resp, NilErr)
    /\ (ExecuteAnswered /\ result.err # NilErr
           /\ HasPrefix(result.err.msg, "received non-OK response: ")) =>
          /\ ~Decodable(received[1].body)
          /\ received[1].status # 200
    /\ (NonOKButDecodable /\ frame.op \in TypedOps \ {"GetIssue"}) =>
          result = ResultOf(frame.op, SuccessOf(received[1].body))
    /\ (NonOKButDecodable /\ frame.op = "GetIssue") =>
          /\ result = GetIssuePrimary(SuccessOf(received[1].body))
          /\ IsMap(Get(Get(received[1].body, "data"), "issue")) =>
                result.err = NilErr

\* GetTeamIssues has returned the list of a response with status 500 whose
\* body decodes
C21_Witness ==
    /\ NonOKButDecodable
    /\ frame.op = "GetTeamIssues"
    /\ received[1] = Http(500, Body(FullTeamIssues, Absent))
    /\ result.kind = "return"
    /\ result.err = NilErr
    /\ result.rec.kind = "slice"
    /\ Len(result.rec.elems) = 1

\* the keys of a JSON object
KeysOf(o) == DOMAIN o.fields
\* the "input" object of the first request of the call
SentInput == Get(sent[1].body.variables, "input")
\* CreateIssue has sent its request
CreateIssueSent == InCall /\ frame.op = "CreateIssue" /\ Len(sent) >= 1

\* C22: CreateIssue sends an "input" object that always holds teamId, title
\* and description (description also when it is empty), holds priority only
\* when Priority > 0, and holds stateId, assigneeId, projectId and parentId
\* only when the input string is not empty; it holds no other key, and
\* "input" is the only variable.
C22_CreateIssueInput ==
    CreateIssueSent =>
       LET in == frame.args.input
       IN  /\ KeysOf(sent[1].body.variables) = {"input"}
           /\ IsMap(SentInput)
           /\ KeysOf(SentInput) =
                 {"teamId", "title", "description"}
                 \cup (IF in.Priority > 0 THEN {"priority"} ELSE {})
                 \cup (IF in.StateID # "" THEN {"stateId"} ELSE {})
                 \cup (IF in.AssigneeID # "" THEN {"assigneeId"} ELSE {})
                 \cup (IF in.ProjectID # "" THEN {"projectId"} ELSE {})
                 \cup (IF in.ParentID # "" THEN {"parentId"} ELSE {})
           /\ Get(SentInput, "teamId") = JStr(in.TeamID)
           /\ Get(SentInput, "title") = JStr(in.Title)
           /\ Get(SentInput, "description") = JStr(in.Description)
           /\ in.Priority > 0 => Get(SentInput, "priority") = JInt(in.Priority)
           /\ in.StateID # "" => Get(SentInput, "stateId") = JStr(in.StateID)
           /\ in.AssigneeID # "" => Get(SentInput, "assigneeId") = JStr(in.AssigneeID)
           /\ in.ProjectID # "" => Get(SentInput, "projectId") = JStr(in.ProjectID)
           /\ in.ParentID # "" => Get(SentInput, "parentId") = JStr(in.ParentID)

\* CreateIssue with an empty description, a negative priority and no state
\* has sent teamId, title and the empty description, and nothing else
C22_Witness ==
    /\ CreateIssueSent
    /\ frame.args.input.Description = ""
    /\ frame.args.input.Priority = -1
    /\ frame.args.input.StateID = ""
    /\ SentInput = JObj([teamId |-> JStr("team-1"), title |-> JStr("Fix it"),
                         description |-> JStr("")])

\* UpdateIssue has sent its request
UpdateIssueSent == InCall /\ frame.op = "UpdateIssue" /\ Len(sent) >= 1
\* the keys of the update input and the fields of UpdateIssueInput they carry
UpdateIssueFields ==
    {<<"title", "Title">>, <<"description", "Description">>,
     <<"priority", "Priority">>, <<"stateId", "StateID">>,
     <<"assigneeId", "AssigneeID">>, <<"projectId", "ProjectID">>,
     <<"parentId", "ParentID">>}
\* the JSON value of what a set pointer of an update input points to
PointedValue(key, p) == IF key = "priority" THEN JInt(p.v) ELSE JStr(p.v)

\* C23: UpdateIssue sends variables whose "id" is the issue ID and whose
\* "input" object holds exactly the fields whose pointer in UpdateIssueInput
\* is not nil, each with the value pointed to (an empty string and priority
\* 0 included); a nil field is never sent, and an update with no field set
\* still sends one request, with an empty "input".
C23_UpdateIssueInput ==
    /\ UpdateIssueSent =>
          LET in == frame.args.input
          IN  /\ KeysOf(sent[1].body.variables) = {"id", "input"}
              /\ Get(sent[1].body.variables, "id") = JStr(frame.args.issueID)
              /\ IsMap(SentInput)
              /\ KeysOf(SentInput) =
                    {f[1] : f \in {g \in UpdateIssueFields : in[g[2]].kind = "ptr"}}
              /\ \A f \in UpdateIssueFields :
                    in[f[2]].kind = "ptr" =>
                       Get(SentInput, f[1]) = PointedValue(f[1], in[f[2]])
              /\ Len(sent) = 1
    /\ (InCall /\ frame.op = "UpdateIssue" /\ ValidURL) => Len(sent) = 1

\* UpdateIssue whose title points to the empty string and whose priority
\* points to 0 has sent both, and nothing for its nil description
C23_Witness ==
    /\ UpdateIssueSent
    /\ frame.args.input.Title = Ptr("")
    /\ frame.args.input.Priority = Ptr(0)
    /\ frame.args.input.Description = NilPtr
    /\ SentInput = JObj([title |-> JStr(""), priority |-> JInt(0)])

\* UpdateIssue with no field set has sent one request with an empty input
C23_EmptyUpdate ==
    /\ UpdateIssueSent
    /\ \A f \in UpdateIssueFields : frame.args.input[f[2]] = NilPtr
    /\ Len(sent) = 1
    /\ IsMap(SentInput)
    /\ KeysOf(SentInput) = {}

\* a mutation has ended on a response that ExecuteGraphQL returned without an
\* error
MutationDecoded ==
    /\ MutationAnswered
    /\ Decodable(received[1].body)
    /\ NoErrorsIn(received[1].body)
\* the key of the entity in the container of the mutation op
EntityKeyOf(op) == IF op \in {"CreateIssue", "UpdateIssue"} THEN "issue" ELSE "project"
\* the mutation's "success" is the boolean true
Succeeded == Get(MutationAnswer, "success") = JBool(TRUE)

\* C24: in every mutation the checks run in the order container, success,
\* entity: a missing or mis-shaped container (issueCreate, issueUpdate,
\* projectCreate, projectUpdate) is reported first, a "success" that is not
\* true is reported before the entity is looked at, and a response with
\* "success" true whose issue/project is missing or no object gives an error
\* and a nil record, never an empty record.
C24_MutationCheckOrder ==
    MutationDecoded =>
       /\ ~IsMap(MutationAnswer) =>
             result = Ret(NilPtr, Err("invalid " \o ContainerOf(frame.op)
                                       \o " data format"))
       /\ (IsMap(MutationAnswer) /\ ~Succeeded) =>
             result = Ret(NilPtr, Err(NotSuccessful(frame.op)))
       /\ (IsMap(MutationAnswer) /\ Succeeded
              /\ ~IsMap(Get(MutationAnswer, EntityKeyOf(frame.op)))) =>
             result = Ret(NilPtr, Err("invalid " \o EntityKeyOf(frame.op)
                                       \o " data format"))
       /\ (IsMap(MutationAnswer) /\ Succeeded
              /\ IsMap(Get(MutationAnswer, EntityKeyOf(frame.op)))) =>
             /\ result.kind = "return"
             /\ result.err = NilErr
             /\ result.rec.kind = "ptr"

\* CreateProject has returned the "not successful" error for a response
\* whose "success" is false and whose project is missing as well
C24_Witness ==
    /\ MutationDecoded
    /\ frame.op = "CreateProject"
    /\ MutationAnswer = JObj([success |-> JBool(FALSE)])
    /\ result = Ret(NilPtr, Err("project creation was not successful"))

\* UpdateIssue has returned an error and no record for a response whose
\* "success" is true and whose issue is null
C24_EntityMissing ==
    /\ MutationDecoded
    /\ frame.op = "UpdateIssue"
    /\ MutationAnswer = JObj([success |-> JBool(TRUE), issue |-> Null])
    /\ result = Ret(NilPtr, Err("invalid issue data format"))

\* a tool handler has returned to the dispatcher
Replied == pc = "replied"
\* what a handler that has returned hands the dispatcher: a response and no
\* error, or no response and its operation's error behind the tool's prefix
RepliesWell ==
    Replied =>
       /\ result.kind = "return"
       /\ \/ /\ result.rec.kind = "ptr"
             /\ result.err = NilErr
             /\ frame.ret.err = NilErr
          \/ /\ result.rec = NilPtr
             /\ result.err # NilErr
             /\ frame.ret.err # NilErr
             /\ result.err.msg = ToolPrefix(frame.op) \o frame.ret.err.msg
       /\ (frame.op = "GetIssue" /\ Len(received) = 2 /\ frame.ret.err # NilErr) =>
             /\ frame.ret.rec.kind = "ptr"
             /\ result.rec = NilPtr

\* C25: every tool handler returns either a non-nil tool response with a
\* nil error, or a nil tool response with an error that is its client
\* operation's error behind the tool's own prefix; when the children fetch
\* of get_issue fails the tool returns the error only, not the issue that
\* was fetched.  No handler ends in any other way.
C25_HandlerReturns == RepliesWell /\ pc # "panicked"

\* the get_teams handler has ended in the panic of GetTeams: it returned
\* neither a response nor an error
C25_Panicked ==
    /\ pc = "panicked"
    /\ frame.op = "GetTeams"
    /\ received[1].kind = "response"
    /\ result.kind = "panic"

\* get_issue has returned the error only, though GetIssue had returned the
\* issue beside the error of its children fetch
C25_ChildrenFailure ==
    /\ Replied
    /\ frame.op = "GetIssue"
    /\ Len(received) = 2
    /\ received[2] = TransportFailure
    /\ frame.ret.rec.kind = "ptr"
    /\ result.rec = NilPtr
    /\ HasPrefix(result.err.msg, "failed to get issue: failed to load children: ")

\* main has not got to serving: it is at its start, registering, or ended
BeforeServing == pc \in {"start", "registering", "exited"}

\* C26: at startup, if LINEAR_API_KEY is empty the process ends before a
\* client is created, a tool is registered or the server serves; otherwise
\* the server serves only after every tool has been registered, and a
\* failure to register a tool ends the process before serving.
C26_Startup ==
    /\ [](process.apiKey = "" =>
             /\ client = NilPtr
             /\ process.tools = <<>>
             /\ pc \in {"start", "exited"})
    /\ [](~BeforeServing => client # NilPtr /\ process.tools = AllTools)
    /\ [][(pc = "registering" /\ process.tools # AllTools /\ pc' # pc)
              => pc' = "exited"]_vars
    /\ [][pc = "exited" => pc' = "exited"]_vars

\* a tool call is being served: the key was set, the client exists and all
\* twelve tools are registered
C26_Witness ==
    /\ pc = "waiting"
    /\ frame.op = "GetTeams"
    /\ process.apiKey = "lin_api_XYZ"
    /\ client.v.apiKey = "lin_api_XYZ"
    /\ Len(process.tools) = 12

\* the process has ended on the failed registration of the ninth tool
C26_RegistrationFailed ==
    /\ pc = "exited"
    /\ process.apiKey # ""
    /\ Len(process.tools) = 8

\* the process has ended on the empty key
C26_NoKey == pc = "exited" /\ process.apiKey = "" /\ client = NilPtr

\* an operation is waiting for httpCli.Do
Waiting == pc = "waiting"

\* C27: every client operation returns a record or an error after finitely
\* many steps provided each of its HTTP requests completes: an operation
\* that waits for a request goes on to return, and no operation sends more
\* than two requests.
C27_OperationsReturn ==
    /\ Waiting ~> (pc = "returned" /\ result.kind = "return")
    /\ [](Len(sent) <= 2)

\* an operation that waits for a request ends, by a return or by a panic
C27_OperationsEnd == Waiting ~> Ended

\* GetViewer has ended in a panic on a response that completed: it returned
\* neither a record nor an error
C27_Witness ==
    /\ pc = "panicked"
    /\ frame.op = "GetViewer"
    /\ Len(received) = 1
    /\ received[1].kind = "response"
    /\ result.kind = "panic"

====
